---------------------------- MODULE Spec2Model ----------------------------
(***************************************************************************)
(* A model of adalight-rs: the UpdateTimer pipeline (TimerThread and       *)
(* WorkerThread of update_timer.rs, driven by the session observer of      *)
(* hidden_window.rs) and the objects the Worker owns: ScreenSamples,       *)
(* PixelBuffer, GammaLookup, SerialPort and OpcPool.                       *)
(*                                                                         *)
(* A u32 colour word is the tuple of its four bytes, most significant      *)
(* first: <<r, g, b, a>>.  Real arithmetic of take_samples is exact        *)
(* rational arithmetic on scaled integers (the fades used are dyadic, so   *)
(* the f64 arithmetic of the source is exact on them).  Observability      *)
(* counters (frame_count, start_tick, frame_rate) are not part of the      *)
(* state.                                                                  *)
(***************************************************************************)
EXTENDS Integers, Sequences, FiniteSets, TLC

VARIABLES
    parameters,      \* Settings, immutable after load
    machine,         \* the adapters with their outputs, and the desktop images
    caller,          \* the thread calling UpdateTimer (the window procedure)
    started,         \* "yes": start() returned true and no stop() was called
                     \* since; "stopped": stop() was called and no start() since
    timer,           \* the TimerThread struct behind its mutex
    timer_thread,    \* the Timer threads spawned: the position of each
    worker_handle,   \* WorkerThread.thread: Option<JoinHandle>
    worker_lock,     \* the Mutex<WorkerThread>: "free", "held" or "poisoned"
    worker_thread,   \* the Worker thread: its position
    channel,         \* the mpsc channel Timer -> Worker
    samples,         \* ScreenSamples owned by the Worker
    serial_buffer,   \* the Worker's serial PixelBuffer
    port,            \* SerialPort owned by the Worker
    pool,            \* OpcPool owned by the Worker
    tick,            \* what the Worker has done for the event it is handling
    call,            \* the last direct call of an object and its inputs
    pixels,          \* a PixelBuffer built and filled by direct calls
    window           \* the hidden window: its WindowState and the message
                     \* its procedure is handling

vars == <<parameters, machine, caller, started, timer, timer_thread,
          worker_handle, worker_lock, worker_thread, channel, samples,
          serial_buffer, port, pool, tick, call, pixels, window>>

---------------------------------------------------------------------------
(* Bounds of the model.                                                    *)

\* Events the channel may hold before the Timer is held back.
MaxQueue == 1
\* Timer threads that may be alive at once.
MaxTimers == 2
\* The same where the caller leaves the Worker time to start.
PipelineTimers == 1
\* Direct calls of take_samples in a run.
MaxTakes == 2
\* DisplayResources entries ScreenSamples may hold.
MaxDisplays == 2
\* Candidate COM ports of the machine.
MaxPorts == 1
\* Words added to a PixelBuffer between two clears.
MaxAdds == 2
\* Bytes of the longest PixelBuffer that is filled and cleared.
MaxFill == 1024
\* Candidate COM ports open() probes when it is called directly (COM1 to
\* COM255 in the source).
ProbePorts == 3
\* Characters of the longest one-line text strip_comments is given.
MaxLine == 6
\* Characters of each line of a two-line text strip_comments is given.
MaxSplit == 3

\* The largest pixelCount of the grid of pixel ranges converted
MaxRange == 29

\* Messages sent to the hidden window in a run
MaxMessages == 3

\* Events the channel may hold where the Worker is left behind by the Timer
MaxBurst == 2

\* The largest pixelCount of the pixel ranges rendered
MaxPixels == 13

---------------------------------------------------------------------------
(* Sequences.                                                              *)

Range(s) == {s[i] : i \in 1..Len(s)}

RECURSIVE SumSeq(_)
SumSeq(s) == IF s = <<>> THEN 0 ELSE Head(s) + SumSeq(Tail(s))

Repeat(x, n) == [i \in 1..n |-> x]

RECURSIVE Flatten(_)
Flatten(ss) == IF ss = <<>> THEN <<>> ELSE Head(ss) \o Flatten(Tail(ss))

Min(a, b) == IF a < b THEN a ELSE b

---------------------------------------------------------------------------
(* settings.rs: Settings and its derived values.                           *)

\* fade as the fraction num/den, weight = 1.0 - fade
get_weight(p) == [num |-> p.fade.den - p.fade.num, den |-> p.fade.den]

get_total_led_count(p) == SumSeq([i \in 1..Len(p.displays) |-> p.displays[i].positions])

\* A minimum brightness colour whose channels are rounded up.
get_min_brightness_color_ceiling(p) ==
    LET c == ((p.min_brightness + 2) \div 3) % 256 IN <<c, c, c, 255>>

get_min_brightness_color(p) ==
    LET c == (p.min_brightness \div 3) % 256 IN <<c, c, c, 255>>

\* OpcChannel from its JSON form: its id and ranges, and the total of the
\* ranges' pixel_count summed at load.
OpcChannel(c, counts) ==
    [channel           |-> c,
     pixels            |-> [i \in 1..Len(counts) |-> [pixel_count |-> counts[i]]],
     total_pixel_count |-> SumSeq(counts)]

get_total_pixel_count(opc_channel) == opc_channel.total_pixel_count

---------------------------------------------------------------------------
(* gamma_correction.rs: the lookup table has an entry for each index of    *)
(* 0_u8..255, that is 255 entries; entry i is ((i/255)^2.8 * ceiling)      *)
(* truncated, with ceilings 255, 240 and 220.                              *)

GammaTableR ==
  <<
       0,   0,   0,   0,   0,   0,   0,   0,   0,   0,   0,   0,   0,   0,   0,   0,   0,
       0,   0,   0,   0,   0,   0,   0,   0,   0,   0,   0,   0,   0,   0,   0,   0,   0,
       0,   0,   1,   1,   1,   1,   1,   1,   1,   1,   1,   1,   2,   2,   2,   2,   2,
       2,   2,   3,   3,   3,   3,   3,   4,   4,   4,   4,   4,   5,   5,   5,   5,   6,
       6,   6,   6,   7,   7,   7,   7,   8,   8,   8,   9,   9,   9,  10,  10,  11,  11,
      11,  12,  12,  12,  13,  13,  14,  14,  15,  15,  16,  16,  17,  17,  18,  18,  19,
      19,  20,  20,  21,  21,  22,  23,  23,  24,  24,  25,  26,  26,  27,  28,  28,  29,
      30,  30,  31,  32,  33,  33,  34,  35,  36,  37,  37,  38,  39,  40,  41,  42,  42,
      43,  44,  45,  46,  47,  48,  49,  50,  51,  52,  53,  54,  55,  56,  57,  58,  59,
      61,  62,  63,  64,  65,  66,  67,  69,  70,  71,  72,  74,  75,  76,  77,  79,  80,
      81,  83,  84,  86,  87,  88,  90,  91,  93,  94,  96,  97,  99, 100, 102, 103, 105,
     107, 108, 110, 111, 113, 115, 116, 118, 120, 122, 123, 125, 127, 129, 130, 132, 134,
     136, 138, 140, 142, 144, 146, 148, 150, 152, 154, 156, 158, 160, 162, 164, 166, 168,
     170, 172, 175, 177, 179, 181, 184, 186, 188, 191, 193, 195, 198, 200, 202, 205, 207,
     210, 212, 215, 217, 220, 222, 225, 227, 230, 233, 235, 238, 241, 243, 246, 249, 252
  >>

GammaTableG ==
  <<
       0,   0,   0,   0,   0,   0,   0,   0,   0,   0,   0,   0,   0,   0,   0,   0,   0,
       0,   0,   0,   0,   0,   0,   0,   0,   0,   0,   0,   0,   0,   0,   0,   0,   0,
       0,   0,   0,   1,   1,   1,   1,   1,   1,   1,   1,   1,   1,   2,   2,   2,   2,
       2,   2,   2,   3,   3,   3,   3,   3,   3,   4,   4,   4,   4,   5,   5,   5,   5,
       5,   6,   6,   6,   6,   7,   7,   7,   8,   8,   8,   9,   9,   9,  10,  10,  10,
      11,  11,  11,  12,  12,  12,  13,  13,  14,  14,  15,  15,  16,  16,  16,  17,  17,
      18,  18,  19,  20,  20,  21,  21,  22,  22,  23,  23,  24,  25,  25,  26,  27,  27,
      28,  29,  29,  30,  31,  31,  32,  33,  34,  34,  35,  36,  37,  37,  38,  39,  40,
      41,  42,  43,  43,  44,  45,  46,  47,  48,  49,  50,  51,  52,  53,  54,  55,  56,
      57,  58,  59,  60,  61,  62,  63,  65,  66,  67,  68,  69,  70,  72,  73,  74,  75,
      77,  78,  79,  80,  82,  83,  84,  86,  87,  89,  90,  91,  93,  94,  96,  97,  99,
     100, 102, 103, 105, 106, 108, 110, 111, 113, 114, 116, 118, 119, 121, 123, 124, 126,
     128, 130, 132, 133, 135, 137, 139, 141, 143, 144, 146, 148, 150, 152, 154, 156, 158,
     160, 162, 164, 166, 169, 171, 173, 175, 177, 179, 181, 184, 186, 188, 190, 193, 195,
     197, 200, 202, 204, 207, 209, 212, 214, 217, 219, 222, 224, 227, 229, 232, 234, 237
  >>

GammaTableB ==
  <<
       0,   0,   0,   0,   0,   0,   0,   0,   0,   0,   0,   0,   0,   0,   0,   0,   0,
       0,   0,   0,   0,   0,   0,   0,   0,   0,   0,   0,   0,   0,   0,   0,   0,   0,
       0,   0,   0,   0,   1,   1,   1,   1,   1,   1,   1,   1,   1,   1,   2,   2,   2,
       2,   2,   2,   2,   3,   3,   3,   3,   3,   3,   4,   4,   4,   4,   4,   4,   5,
       5,   5,   5,   6,   6,   6,   6,   7,   7,   7,   7,   8,   8,   8,   9,   9,   9,
      10,  10,  10,  11,  11,  11,  12,  12,  13,  13,  13,  14,  14,  15,  15,  15,  16,
      16,  17,  17,  18,  18,  19,  19,  20,  20,  21,  21,  22,  23,  23,  24,  24,  25,
      26,  26,  27,  27,  28,  29,  29,  30,  31,  31,  32,  33,  34,  34,  35,  36,  37,
      37,  38,  39,  40,  41,  41,  42,  43,  44,  45,  46,  47,  47,  48,  49,  50,  51,
      52,  53,  54,  55,  56,  57,  58,  59,  60,  61,  62,  63,  65,  66,  67,  68,  69,
      70,  71,  73,  74,  75,  76,  77,  79,  80,  81,  82,  84,  85,  86,  88,  89,  90,
      92,  93,  95,  96,  97,  99, 100, 102, 103, 105, 106, 108, 109, 111, 112, 114, 116,
     117, 119, 121, 122, 124, 126, 127, 129, 131, 132, 134, 136, 138, 140, 141, 143, 145,
     147, 149, 151, 153, 154, 156, 158, 160, 162, 164, 166, 168, 170, 172, 175, 177, 179,
     181, 183, 185, 187, 190, 192, 194, 196, 198, 201, 203, 205, 208, 210, 212, 215, 217
  >>

\* table[usize::from(i)]: indexing past the table panics
InTable(i) == i + 1 <= Len(GammaTableR)

red(i) == GammaTableR[i + 1]

green(i) == GammaTableG[i + 1]

blue(i) == GammaTableB[i + 1]

---------------------------------------------------------------------------
(* pixel_buffer.rs                                                         *)

HighByte(n) == (n % 65536) \div 256

LowByte(n) == n % 256

RECURSIVE Xor8(_, _)
Xor8(a, b) ==
    IF a = 0 /\ b = 0 THEN 0
    ELSE ((a + b) % 2) + 2 * Xor8(a \div 2, b \div 2)

\* A serial buffer whose header carries the LED count itself.
new_serial_buffer_count(p) ==
    LET n      == get_total_led_count(p)
        hi     == HighByte(n)
        lo     == LowByte(n)
        offset == <<65, 100, 97, hi, lo, Xor8(Xor8(hi, lo), 85)>>
    IN [buffer        |-> offset \o Repeat(0, 3 * n),
        alpha_channel |-> FALSE,
        offset        |-> offset,
        position      |-> Len(offset)]

\* (total_led_count - 1) as u16; usize subtraction wraps in a release build
new_serial_buffer(p) ==
    LET n      == get_total_led_count(p)
        count  == IF n = 0 THEN 65535 ELSE (n - 1) % 65536
        hi     == HighByte(count)
        lo     == LowByte(count)
        offset == <<65, 100, 97, hi, lo, Xor8(Xor8(hi, lo), 85)>>
    IN [buffer        |-> offset \o Repeat(0, 3 * n),
        alpha_channel |-> FALSE,
        offset        |-> offset,
        position      |-> Len(offset)]

\* A bob buffer whose header length counts the four bytes of each pixel.
new_bob_buffer_payload_length(opc_channel) ==
    LET n      == get_total_pixel_count(opc_channel)
        offset == <<opc_channel.channel, 255, HighByte(4 * n), LowByte(4 * n), 11, 11>>
    IN [buffer        |-> offset \o Repeat(0, 4 * n),
        alpha_channel |-> TRUE,
        offset        |-> offset,
        position      |-> Len(offset)]

\* (3 * total_pixel_count) as u16 in the header, 3 bytes for each pixel
new_opc_buffer(opc_channel) ==
    LET n             == get_total_pixel_count(opc_channel)
        opc_data_size == (3 * n) % 65536
        offset        == <<opc_channel.channel, 0, HighByte(opc_data_size),
                           LowByte(opc_data_size)>>
    IN [buffer        |-> offset \o Repeat(0, 3 * n),
        alpha_channel |-> FALSE,
        offset        |-> offset,
        position      |-> Len(offset)]

\* the same opc_data_size in the header, the system id 0xB0B, and 4 bytes
\* for each pixel
new_bob_buffer(opc_channel) ==
    LET n             == get_total_pixel_count(opc_channel)
        opc_data_size == (3 * n) % 65536
        system_id     == 2827
        offset        == <<opc_channel.channel, 255, HighByte(opc_data_size),
                           LowByte(opc_data_size), HighByte(system_id),
                           LowByte(system_id)>>
    IN [buffer        |-> offset \o Repeat(0, 4 * n),
        alpha_channel |-> TRUE,
        offset        |-> offset,
        position      |-> Len(offset)]

\* The bytes of a u32 word by the masks and shifts of add, most significant
\* first.
WordBytes(rgba_pixel) ==
    <<(rgba_pixel \div 16777216) % 256, (rgba_pixel \div 65536) % 256,
      (rgba_pixel \div 256) % 256, rgba_pixel % 256>>

\* An add that writes the low byte of the word first.
add_low_first(pb, word) ==
    LET bytes == IF pb.alpha_channel THEN <<word[4], word[3], word[2], word[1]>>
                 ELSE <<word[4], word[3], word[2]>> IN
    [pb EXCEPT !.buffer   = [i \in 1..Len(pb.buffer) |->
                                IF i > pb.position /\ i <= pb.position + Len(bytes)
                                THEN bytes[i - pb.position] ELSE pb.buffer[i]],
               !.position = pb.position + Len(bytes)]

\* add: the three high bytes of the word, then the low byte with alpha
add(pb, word) ==
    LET bytes == IF pb.alpha_channel THEN word ELSE SubSeq(word, 1, 3) IN
    [pb EXCEPT !.buffer   = [i \in 1..Len(pb.buffer) |->
                                IF i > pb.position /\ i <= pb.position + Len(bytes)
                                THEN bytes[i - pb.position] ELSE pb.buffer[i]],
               !.position = pb.position + Len(bytes)]

\* A clear that leaves the payload as it is.
clear_nothing(pb) == pb

clear(pb) ==
    IF Len(pb.buffer) > Len(pb.offset)
    THEN [pb EXCEPT !.position = Len(pb.offset),
                    !.buffer   = SubSeq(pb.buffer, 1, Len(pb.offset))
                                 \o Repeat(0, Len(pb.buffer) - Len(pb.offset))]
    ELSE pb

data(pb) == pb.buffer

\* No PixelBuffer allocated.
NoBuffer == [buffer |-> <<>>, alpha_channel |-> FALSE, offset |-> <<>>, position |-> 0]

Payload(pb) == SubSeq(pb.buffer, Len(pb.offset) + 1, Len(pb.buffer))

AllZero(s) == \A i \in 1..Len(s) : s[i] = 0

---------------------------------------------------------------------------
(* screen_samples.rs                                                       *)

\* Number of sample pixels in the x and y directions for each sample block.
PIXEL_SAMPLES == 16

\* Number of sample pixels in each 16x16 sample block.
OFFSET_ARRAY_SIZE == PIXEL_SAMPLES * PIXEL_SAMPLES

\* A desktop image, uniform over the display: the R, G and B byte of its pixels.
Black == <<0, 0, 0>>
White == <<255, 255, 255>>
Dim   == <<10, 0, 0>>
Grey  == <<100, 100, 100>>

Palette == {Black, Dim, Grey}

\* A staging texture nothing was copied to yet.
Uninit == <<>>

\* A desktop image of two colours: in every sample block, k of the 256
\* sample pixels read <<r2, g2, b2>> and the others <<r, g, b>>.
TwoTone(rgb, rgb2, k) == rgb \o rgb2 \o <<k>>

Speck    == TwoTone(Black, White, 1)
HalfTone == TwoTone(Grey, <<101, 101, 101>>, 128)
Dusk     == TwoTone(<<10, 0, 0>>, <<11, 3, 0>>, 64)

\* The sum of one channel over the 256 sample pixels of a block.
BlockSum(frame) ==
    [c \in 1..3 |->
        IF Len(frame) = 3 THEN OFFSET_ARRAY_SIZE * frame[c]
        ELSE (OFFSET_ARRAY_SIZE - frame[7]) * frame[c] + frame[7] * frame[c + 3]]

ScreenSamples_new ==
    [factory            |-> FALSE,
     displays           |-> <<>>,
     pixel_offsets      |-> <<>>,
     previous_colors    |-> <<>>,
     acquired_resources |-> FALSE]

\* An is_empty that never sees the resources held.
is_empty_always(s) == TRUE

is_empty(s) == ~s.acquired_resources

\* The outputs create_resources visits: adapters 0..display_len, and of each
\* the outputs 0..display_len, as far as the machine has them.
VisitedOutputs(p, m) ==
    LET n == Len(p.displays) IN
    Flatten([i \in 1..Min(n, Len(m.adapters)) |->
               SubSeq(m.adapters[i], 1, Min(n, Len(m.adapters[i])))])

\* env.factory_ok: CreateDXGIFactory1 succeeds; env.usable: the visited
\* outputs that are attached and can be duplicated now; env.abort: the
\* visited output (0: none) at which output.cast() or CreateTexture2D fails.
RECURSIVE PushDisplays(_, _, _, _)
PushDisplays(displays, outs, k, env) ==
    IF k > Len(outs) THEN [displays |-> displays, aborted |-> FALSE]
    ELSE IF env.abort = k THEN [displays |-> displays, aborted |-> TRUE]
    ELSE IF k \in env.usable
         THEN PushDisplays(Append(displays,
                                  [staging        |-> outs[k].staging,
                                   acquired_frame |-> FALSE,
                                   texture        |-> Uninit]),
                           outs, k + 1, env)
         ELSE PushDisplays(displays, outs, k + 1, env)

create_resources(s, p, m, env) ==
    IF s.acquired_resources THEN [samples |-> s, result |-> "ok"]
    ELSE IF ~s.factory /\ ~env.factory_ok THEN [samples |-> s, result |-> "err"]
    ELSE
      LET s1     == [s EXCEPT !.factory = TRUE]
          pushed == PushDisplays(s1.displays, VisitedOutputs(p, m), 1, env)
          s2     == [s1 EXCEPT !.displays = pushed.displays]
      IN IF pushed.aborted \/ s2.displays = <<>>
         THEN [samples |-> s2, result |-> "err"]
         ELSE IF Len(s2.displays) < Len(p.displays)
              \* self.displays[i].bounds is indexed for every configured display
              THEN [samples |-> s2, result |-> "panic"]
              ELSE [samples |->
                      [s2 EXCEPT
                         !.pixel_offsets =
                             [i \in 1..Len(s2.displays) |->
                                 IF i <= Len(p.displays)
                                 THEN p.displays[i].positions ELSE 0],
                         !.previous_colors =
                             Repeat(get_min_brightness_color(p),
                                    get_total_led_count(p)),
                         !.acquired_resources = TRUE],
                    result |-> "ok"]

\* A free_resources that releases nothing.
free_resources_nothing(s) == s

free_resources(s) ==
    IF ~s.acquired_resources THEN s
    ELSE [s EXCEPT !.displays = <<>>,
                   !.pixel_offsets = <<>>,
                   !.acquired_resources = FALSE]

\* A sample that averages in half of the previous colour whatever fade is.
SampleColor_always_fades(p, frame, previous_color) ==
    LET scale == OFFSET_ARRAY_SIZE * 2
        sums  == BlockSum(frame)
        faded == [c \in 1..3 |-> sums[c] + previous_color[c] * OFFSET_ARRAY_SIZE]
        sum   == faded[1] + faded[2] + faded[3]
        minb  == p.min_brightness * scale
        out   == [c \in 1..3 |->
                    IF sum < minb
                    THEN IF sum = 0 THEN 0
                         ELSE ((minb - sum) * (sum - faded[c])) \div (2 * sum * scale)
                    ELSE faded[c] \div scale]
    IN <<out[1] % 256, out[2] % 256, out[3] % 256, 255>>

\* A lift that spreads the deficit equally over the three channels.
SampleColor_equal_lift(p, frame, previous_color) ==
    LET sums == BlockSum(frame)
        sum  == sums[1] + sums[2] + sums[3]
        minb == p.min_brightness * OFFSET_ARRAY_SIZE
        out  == [c \in 1..3 |->
                   IF sum < minb
                   THEN (3 * sums[c] + minb - sum) \div (3 * OFFSET_ARRAY_SIZE)
                   ELSE sums[c] \div OFFSET_ARRAY_SIZE]
    IN <<out[1] % 256, out[2] % 256, out[3] % 256, 255>>

\* One LED: the block average, the fade against the previous colour and the
\* minimum brightness boost, on values scaled by 256 * fade.den.
SampleColor(p, frame, previous_color) ==
    LET scale == OFFSET_ARRAY_SIZE * p.fade.den
        w     == get_weight(p)
        sums  == BlockSum(frame)
        faded == [c \in 1..3 |->
                    IF p.fade.num # 0
                    THEN sums[c] * w.num + previous_color[c] * OFFSET_ARRAY_SIZE * p.fade.num
                    ELSE sums[c] * p.fade.den]
        sum   == faded[1] + faded[2] + faded[3]
        minb  == p.min_brightness * scale
        out   == [c \in 1..3 |->
                    IF sum < minb
                    THEN IF sum = 0 THEN 0
                         ELSE ((minb - sum) * (sum - faded[c])) \div (2 * sum * scale)
                    ELSE faded[c] \div scale]
    IN <<out[1] % 256, out[2] % 256, out[3] % 256, 255>>

\* An acquire that discards the texture when no frame arrives.
AcquireFrame_discards(device, outcome, frame) ==
    IF outcome = "ok"
    THEN [device EXCEPT !.acquired_frame = TRUE, !.texture = frame]
    ELSE [device EXCEPT !.acquired_frame = FALSE, !.texture = Uninit]

\* AcquireNextFrame on one display that has a staging texture: the frame
\* is copied to the texture, or ("timeout") nothing is done.
AcquireFrame(device, outcome, frame) ==
    IF outcome = "ok"
    THEN [device EXCEPT !.acquired_frame = TRUE, !.texture = frame]
    ELSE [device EXCEPT !.acquired_frame = FALSE]

\* The acquire phase from display d on.  "fatal" is DXGI_ERROR_ACCESS_LOST or
\* DXGI_ERROR_INVALID_CALL; "cast" is the frame failing to cast to a texture.
RECURSIVE AcquireLoop(_, _, _)
AcquireLoop(s, env, d) ==
    IF d > Len(s.displays) THEN [samples |-> s, result |-> "ok"]
    ELSE IF ~s.displays[d].staging THEN AcquireLoop(s, env, d + 1)
    ELSE IF env.acq[d] = "fatal"
         THEN [samples |-> free_resources(s), result |-> "fatal"]
    ELSE IF env.acq[d] = "cast"
         THEN [samples |-> [s EXCEPT !.displays[d].acquired_frame = FALSE],
               result  |-> "cast"]
    ELSE AcquireLoop([s EXCEPT !.displays[d] =
                         AcquireFrame(s.displays[d], env.acq[d], env.frame[d])],
                     env, d + 1)

\* The (display, LED) pairs of the sampling loop in its order; a display past
\* the configured ones makes parameters.displays[i] panic.
SampleItems(s, p) ==
    Flatten([i \in 1..Len(s.displays) |->
               IF i > Len(p.displays) THEN << [display |-> i, led |-> 0] >>
               ELSE [j \in 1..p.displays[i].positions |-> [display |-> i, led |-> j]]])

\* The index of LED j of display i in configuration order.
LedIndex(p, i, j) == SumSeq([d \in 1..(i - 1) |-> p.displays[d].positions]) + j

\* The sampling loop from item k on; next is the position of the
\* previous_colors iterator.
RECURSIVE SampleLoop(_, _, _, _, _, _)
SampleLoop(s, p, env, items, k, next) ==
    IF k > Len(items) THEN [samples |-> s, result |-> "ok"]
    ELSE
      LET it     == items[k]
          device == s.displays[it.display]
      IN IF it.led = 0 THEN [samples |-> s, result |-> "panic"]
         ELSE
           LET map == env.map[LedIndex(p, it.display, it.led)] IN
           IF map = "ok"
           THEN LET frame == IF device.staging
                             THEN IF device.texture = Uninit
                                  THEN env.uninit ELSE device.texture
                             ELSE env.frame[it.display]
                    color == SampleColor(p, frame, s.previous_colors[next])
                IN SampleLoop([s EXCEPT !.previous_colors[next] = color],
                              p, env, items, k + 1, next + 1)
           ELSE IF map = "fatal" /\ ~device.staging
                THEN [samples |-> free_resources(s), result |-> "fatal"]
                ELSE SampleLoop(s, p, env, items, k + 1, next)

\* env.acq[d]: AcquireNextFrame on display d ("ok", "timeout", "fatal" or
\* "cast"); env.frame[d]: the desktop image of display d; env.map[k]: mapping
\* the surface for LED k ("ok", "transient" or "fatal"); env.uninit: what a
\* staging texture that was never copied to reads as.  The result is "ok",
\* or the error returned: "err" (E_FAIL), "fatal" or "cast"; or "panic".
take_samples(s, p, env) ==
    IF ~s.acquired_resources THEN [samples |-> s, result |-> "err"]
    ELSE LET acquired == AcquireLoop(s, env, 1) IN
         IF acquired.result # "ok" THEN acquired
         ELSE SampleLoop(acquired.samples, p, env,
                         SampleItems(acquired.samples, p), 1, 1)

\* render_serial: gamma corrects every previous colour into the buffer;
\* a channel value without a table entry panics.
RECURSIVE AddAll(_, _)
AddAll(pb, words) ==
    IF words = <<>> THEN pb
    ELSE AddAll(add(pb, <<red(Head(words)[1]), green(Head(words)[2]),
                          blue(Head(words)[3]), 255>>),
                Tail(words))

render_serial(s, serial) ==
    IF ~s.acquired_resources
    THEN [serial |-> clear(serial), result |-> "false"]
    ELSE IF \E i \in 1..Len(s.previous_colors) :
               \E c \in 1..3 : ~InTable(s.previous_colors[i][c])
         THEN [serial |-> clear(serial), result |-> "panic"]
         ELSE [serial |-> AddAll(clear(serial), s.previous_colors),
               result |-> "true"]

---------------------------------------------------------------------------
(* serial_port.rs: port_handle is TRUE for a write handle, FALSE for       *)
(* INVALID_HANDLE_VALUE; port_number 0 is "no port identified yet".        *)

SerialPort_new == [port_handle |-> FALSE, port_number |-> 0]

\* env.found: the port the probe identifies (0: none); env.reopen: opening
\* the identified port for writing succeeds.
SerialPort_open(sp, env) ==
    IF sp.port_handle THEN [port |-> sp, result |-> TRUE]
    ELSE
      LET number == IF sp.port_number = 0 THEN env.found ELSE sp.port_number
          handle == number # 0 /\ env.reopen
      IN [port   |-> [port_handle |-> handle, port_number |-> number],
          result |-> handle]

\* A close that forgets the port it had identified.
SerialPort_close_forgets(sp) == [sp EXCEPT !.port_handle = FALSE, !.port_number = 0]

SerialPort_close(sp) == [sp EXCEPT !.port_handle = FALSE]

\* A send that keeps the handle when the write fails.
SerialPort_send_keeps(sp, pb, write_ok) ==
    IF ~sp.port_handle
    THEN [port |-> sp, result |-> FALSE, written |-> <<>>]
    ELSE [port |-> sp, result |-> write_ok, written |-> pb.buffer]

\* !WriteFile(..).as_bool() || cb_written != buffer.len(), negated
WriteComplete(ok, cb_written, pb) == ok /\ cb_written = Len(pb.buffer)

\* written: the bytes handed to WriteFile, <<>> when nothing was written
SerialPort_send(sp, pb, write_ok) ==
    IF ~sp.port_handle
    THEN [port |-> sp, result |-> FALSE, written |-> <<>>]
    ELSE IF ~write_ok
         THEN [port |-> SerialPort_close(sp), result |-> FALSE, written |-> pb.buffer]
         ELSE [port |-> sp, result |-> TRUE, written |-> pb.buffer]

---------------------------------------------------------------------------
(* opc_pool.rs: a connection is its stream, TRUE for Some(TcpStream).      *)

OpcPool_new == [connections |-> <<>>]

\* An open that drops the stream it holds when the connect fails.
OpcConnection_open_drops(stream, connect_ok) == connect_ok

\* A failed connect or shutdown returns the error before the stream is stored.
OpcConnection_open(stream, connect_ok) == IF connect_ok THEN TRUE ELSE stream

OpcConnection_close(stream) == FALSE

\* written: write_all was called on the stream
OpcConnection_send(stream, write_ok) ==
    IF ~stream THEN [stream |-> stream, result |-> FALSE, written |-> FALSE]
    ELSE IF write_ok THEN [stream |-> stream, result |-> TRUE, written |-> TRUE]
         ELSE [stream |-> OpcConnection_close(stream), result |-> FALSE,
               written |-> TRUE]

\* connect[i]: connecting to server i (and shutting down its read side) succeeds
OpcPool_open(op, p, connect) ==
    LET conns == IF op.connections = <<>>
                 THEN [i \in 1..Len(p.servers) |-> FALSE]
                 ELSE op.connections
    IN [pool   |-> [connections |-> [i \in 1..Len(conns) |->
                                        OpcConnection_open(conns[i], connect[i])]],
        result |-> \E i \in 1..Len(conns) : connect[i]]

OpcPool_send(op, server, write_ok) ==
    IF server <= Len(op.connections)
    THEN LET sent == OpcConnection_send(op.connections[server], write_ok)
         IN [pool    |-> [connections |-> [op.connections EXCEPT ![server] = sent.stream]],
             result  |-> sent.result,
             written |-> sent.written]
    ELSE [pool |-> op, result |-> FALSE, written |-> FALSE]

OpcPool_close(op) ==
    [connections |-> [i \in 1..Len(op.connections) |->
                         OpcConnection_close(op.connections[i])]]

\* The outputs that are connected: 0 for the serial port, i for server i.
Connected(sp, op) ==
    (IF sp.port_handle THEN {0} ELSE {})
    \cup {i \in 1..Len(op.connections) : op.connections[i]}

---------------------------------------------------------------------------
(* update_timer.rs: TimerThread behind its mutex.  thread is 0 for None    *)
(* and the number of the spawned Timer thread for Some(JoinHandle).  Each  *)
(* operation runs under the lock, in one step.                             *)

TimerThread_new == [thread |-> 0, throttled |-> FALSE, stopped |-> FALSE]

\* A throttle whose result ignores the stopped flag.
TimerThread_throttle_unguarded(t) ==
    [timer  |-> [t EXCEPT !.throttled = TRUE],
     result |-> ~t.throttled]

TimerThread_throttle(t) ==
    [timer  |-> [t EXCEPT !.throttled = TRUE],
     result |-> ~t.throttled /\ ~t.stopped]

TimerThread_resume(t) ==
    [timer  |-> [t EXCEPT !.throttled = FALSE],
     result |-> t.throttled /\ ~t.stopped]

\* A stop that takes the handle and leaves the stopped flag alone.
TimerThread_stop_unflagged(t) ==
    [timer  |-> [t EXCEPT !.thread = 0],
     result |-> ~t.stopped,
     joined |-> t.thread]

\* The locked part of TimerThread::stop; joined: the handle taken to join.
TimerThread_stop(t) ==
    [timer  |-> [t EXCEPT !.thread = 0, !.stopped = TRUE],
     result |-> ~t.stopped,
     joined |-> t.thread]

\* The locked part of TimerThread::start, which spawns Timer thread h.
TimerThread_start(t, h) == [t EXCEPT !.stopped = FALSE, !.thread = h]

---------------------------------------------------------------------------
(* The inputs: Settings as loaded, and the machine: its adapters, each     *)
(* the sequence of its outputs (staging is FALSE when the desktop image    *)
(* is in system memory and is mapped directly), and the images its         *)
(* desktop may show.                                                       *)

NoFade   == [num |-> 0, den |-> 1]
HalfFade == [num |-> 1, den |-> 2]

Server(alpha, n) == [alpha_channel |-> alpha, channels |-> n]

PipelineSettings ==
    { [min_brightness |-> 64,
       fade           |-> NoFade,
       displays       |-> << [positions |-> 1] >>,
       servers        |-> << Server(FALSE, 2), Server(TRUE, 1) >>] }

Machine(adapters, frames) == [adapters |-> adapters, frames |-> frames]

PipelineMachines ==
    { Machine(<< << [staging |-> TRUE] >> >>, {Grey, White}),
      Machine(<< << [staging |-> FALSE] >> >>, {Grey, White}) }

\* The pipeline with no OPC server, where start() may be called again at once.
RaceSettings ==
    { [min_brightness |-> 64,
       fade           |-> NoFade,
       displays       |-> << [positions |-> 1] >>,
       servers        |-> << >>] }

\* ScreenSamples alone, on two displays, with and without fading.
SampleSettings ==
    { [min_brightness |-> 64,
       fade           |-> f,
       displays       |-> << [positions |-> 1], [positions |-> 1] >>,
       servers        |-> << >>] : f \in {NoFade, HalfFade} }

SampleMachines ==
    { Machine(<< << [staging |-> TRUE], [staging |-> TRUE] >> >>, Palette),
      Machine(<< << [staging |-> TRUE], [staging |-> FALSE] >> >>, Palette) }

\* ScreenSamples alone on one display of two LEDs, without fading, on a
\* desktop that shows one image throughout.
LiftSettings ==
    { [min_brightness |-> b,
       fade           |-> NoFade,
       displays       |-> << [positions |-> 2] >>,
       servers        |-> << >>] : b \in {0, 2, 64, 255} }

LiftPalette == {Black, Dim, Grey, White, Speck, HalfTone, Dusk,
                <<1, 0, 0>>, <<0, 200, 54>>, <<21, 21, 21>>, <<30, 20, 14>>}

LiftMachines ==
    { Machine(<< << [staging |-> s] >> >>, {f}) :
         s \in BOOLEAN, f \in LiftPalette }

RaceMachines == { Machine(<< << [staging |-> FALSE] >> >>, {Grey, White}) }

\* The pipeline of RaceSettings with two displays configured, on a machine
\* with two outputs that are mapped directly.
PairSettings ==
    { [min_brightness |-> 64,
       fade           |-> NoFade,
       displays       |-> << [positions |-> 1], [positions |-> 1] >>,
       servers        |-> << >>] }

PairMachines ==
    { Machine(<< << [staging |-> FALSE], [staging |-> FALSE] >> >>, {Grey}) }

\* The OPC loop walking the servers and channels backwards.
OpcSends_backwards(p) ==
    LET sends == Flatten([i \in 1..Len(p.servers) |->
                            [c \in 1..p.servers[i].channels |-> <<i, c>>]])
    IN [k \in 1..Len(sends) |-> sends[Len(sends) + 1 - k]]

\* The (server, channel) pairs of the OPC loop of a Fired tick, in its order.
OpcSends(p) ==
    Flatten([i \in 1..Len(p.servers) |->
               [c \in 1..p.servers[i].channels |-> <<i, c>>]])

\* A failing factory makes the other outcomes of create_resources moot.
CreateEnvs(p, m) ==
    LET n == Len(VisitedOutputs(p, m)) IN
    {e \in [factory_ok : BOOLEAN, usable : SUBSET (1..n), abort : 0..n] :
        ~e.factory_ok => e.usable = {} /\ e.abort = 0}

\* No port found makes opening it moot.
PortEnvs ==
    {e \in [found : 0..MaxPorts, reopen : BOOLEAN] : e.found = 0 => ~e.reopen}

\* An outcome take_samples does not consult is fixed: the acquire of a
\* display that is mapped directly, the frame of a display whose acquire
\* fails, and the reading of an untouched texture when there is none.
TakeEnvs(s, p, m) ==
    LET any == CHOOSE f \in m.frames : TRUE
        D   == 1..Len(s.displays)
    IN {e \in [acq    : [D -> {"ok", "timeout", "fatal", "cast"}],
               frame  : [D -> m.frames],
               map    : [1..get_total_led_count(p) -> {"ok", "transient", "fatal"}],
               uninit : m.frames] :
          /\ \A d \in D : IF s.displays[d].staging
                           THEN e.acq[d] = "ok" \/ e.frame[d] = any
                           ELSE e.acq[d] = "ok"
          /\ \/ e.uninit = any
             \/ \E d \in D : /\ s.displays[d].staging
                              /\ s.displays[d].texture = Uninit
                              /\ e.acq[d] # "ok"}

---------------------------------------------------------------------------
(* The event the Worker is handling, and what its last step did for it.    *)
(* log: the calls the last step made, in order, each <<call, a, b>>: for   *)
(* "open" a and b are the results of port.open() and pool.open() (1 for    *)
(* true), for "throttle", "resume" and "take" a is the result (1 for true  *)
(* or Ok), for "opc" a is the server and b the channel;                    *)
(* frames: the serial frames written while handling the event;             *)
(* throttle: the call of throttle() made for a Fired event: "first" when   *)
(* it set the throttled flag, "again" when the flag was set already,       *)
(* "none" when it was not called;                                          *)
(* lost: a write failure has closed an output and no open() was called     *)
(* since;                                                                  *)
(* fatal: the last take_samples ended in a fatal error.                    *)

TickInit ==
    [event |-> "none", log |-> <<>>, frames |-> <<>>, throttle |-> "none",
     lost |-> FALSE, fatal |-> FALSE]

TickNew(event, t) ==
    [t EXCEPT !.event = event, !.log = <<>>, !.frames = <<>>, !.throttle = "none"]

Call(name) == <<name, 0, 0>>

Logged(t, entry) == [t EXCEPT !.log = Append(t.log, entry)]

\* The tick record as a step of the Worker starts to log.
Step(t) == [t EXCEPT !.log = <<>>]

Bit(b) == IF b THEN 1 ELSE 0

\* A direct call of ScreenSamples: for take_samples, the outcome of each
\* acquire and whether every Map succeeded.
Called(op, acq, maps_ok, result, n) ==
    [op |-> op, acq |-> acq, maps_ok |-> maps_ok, result |-> result, n |-> n]

CallNone == Called("none", <<>>, TRUE, "ok", 0)

---------------------------------------------------------------------------
(* Init: the state after UpdateTimer::new; no thread has been started.     *)

CallerIdle == [pc |-> "idle", op |-> "none", result |-> FALSE, join |-> 0]

\* No hidden window has been created: UpdateTimer is called directly.
NoWindow ==
    [connected_to_console |-> FALSE, message |-> "none", calls |-> <<>>,
     made |-> <<>>, running |-> FALSE, count |-> 0]

InitWith(settings, machines, timers) ==
    /\ parameters \in settings
    /\ machine \in machines
    /\ caller = CallerIdle
    /\ started = "no"
    /\ timer = TimerThread_new
    /\ timer_thread = [i \in 1..timers |-> "none"]
    /\ worker_handle = FALSE
    /\ worker_lock = "free"
    /\ worker_thread = "none"
    /\ channel = <<>>
    /\ samples = ScreenSamples_new
    /\ serial_buffer = new_serial_buffer(parameters)
    /\ port = SerialPort_new
    /\ pool = OpcPool_new
    /\ tick = TickInit
    /\ call = CallNone
    /\ pixels = NoBuffer
    /\ window = NoWindow

Init == InitWith(PipelineSettings, PipelineMachines, PipelineTimers)

RaceInit == InitWith(RaceSettings, RaceMachines, MaxTimers)

SampleInit == InitWith(SampleSettings, SampleMachines, PipelineTimers)

LiftInit == InitWith(LiftSettings, LiftMachines, PipelineTimers)

TimerAlive(i) == timer_thread[i] \in {"running", "joining", "join_wait"}

TimersAlive == {i \in DOMAIN timer_thread : TimerAlive(i)}

WorkerAlive == worker_thread \notin {"none", "exited", "panicked"}

---------------------------------------------------------------------------
(* The caller of UpdateTimer: start(), stop() and resume(), one call at a  *)
(* time (hidden_window.rs calls them from the window procedure).           *)

\* UpdateTimer::start is called.
UpdateTimer_start ==
    /\ caller.pc = "idle"
    /\ caller' = [pc |-> "start_worker", op |-> "start", result |-> FALSE, join |-> 0]
    /\ UNCHANGED <<pixels, parameters, machine, started, timer, timer_thread,
                   worker_handle, worker_lock, worker_thread, channel,
                   samples, serial_buffer, port, pool, tick, call>>

CallStart == UpdateTimer_start /\ UNCHANGED window

\* WorkerThread::start: locks the WorkerThread, which a running Worker thread
\* holds for as long as it runs, and spawns the Worker if there is no handle.
StartWorker ==
    /\ caller.pc = "start_worker"
    /\ worker_lock # "held"
    /\ IF worker_lock = "poisoned"
       THEN /\ caller' = [caller EXCEPT !.pc = "panicked"]
            /\ UNCHANGED <<worker_handle, worker_thread>>
       ELSE /\ caller' = [caller EXCEPT !.pc = "start_timer"]
            /\ IF ~worker_handle
               THEN /\ worker_handle' = TRUE
                    /\ worker_thread' = "spawned"
               ELSE UNCHANGED <<worker_handle, worker_thread>>
    /\ UNCHANGED <<window, pixels, parameters, machine, started, timer, timer_thread,
                   worker_lock, channel, samples, serial_buffer, port, pool,
                   tick, call>>

\* UpdateTimer::start after WorkerThread::start: TimerThread::start if there
\* is a Worker handle; the new Timer thread replaces the handle in timer.
StartTimer ==
    /\ caller.pc = "start_timer"
    /\ IF worker_handle
       THEN \E h \in DOMAIN timer_thread :
              /\ ~TimerAlive(h)
              /\ \A i \in 1..(h - 1) : TimerAlive(i)
              /\ timer' = TimerThread_start(timer, h)
              /\ timer_thread' = [timer_thread EXCEPT ![h] = "running"]
       ELSE UNCHANGED <<timer, timer_thread>>
    /\ caller' = [caller EXCEPT !.pc = "idle", !.result = worker_handle]
    /\ started' = IF worker_handle THEN "yes" ELSE "no"
    /\ UNCHANGED <<window, pixels, parameters, machine, worker_handle, worker_lock,
                   worker_thread, channel, samples, serial_buffer, port, pool,
                   tick, call>>

\* UpdateTimer::stop up to the join.
UpdateTimer_stop ==
    /\ caller.pc = "idle"
    /\ LET stop == TimerThread_stop(timer) IN
       /\ timer' = stop.timer
       /\ caller' = [pc     |-> IF stop.joined # 0 THEN "stop_join" ELSE "idle",
                     op     |-> "stop",
                     result |-> stop.result,
                     join   |-> stop.joined]
    /\ started' = "stopped"
    /\ UNCHANGED <<pixels, parameters, machine, timer_thread, worker_handle, worker_lock,
                   worker_thread, channel, samples, serial_buffer, port, pool,
                   tick, call>>

CallStop == UpdateTimer_stop /\ UNCHANGED window

\* thread.join().expect("join timer"): returns when that Timer has ended.
StopJoin ==
    /\ caller.pc = "stop_join"
    /\ timer_thread[caller.join] \in {"exited", "panicked"}
    /\ caller' = [caller EXCEPT !.pc = IF timer_thread[caller.join] = "panicked"
                                       THEN "panicked" ELSE "idle"]
    /\ UNCHANGED <<window, pixels, parameters, machine, started, timer, timer_thread,
                   worker_handle, worker_lock, worker_thread, channel, samples,
                   serial_buffer, port, pool, tick, call>>

\* UpdateTimer::resume
UpdateTimer_resume ==
    /\ caller.pc = "idle"
    /\ LET resume == TimerThread_resume(timer) IN
       /\ timer' = resume.timer
       /\ caller' = [pc |-> "idle", op |-> "resume", result |-> resume.result,
                     join |-> 0]
    /\ UNCHANGED <<pixels, parameters, machine, started, timer_thread, worker_handle,
                   worker_lock, worker_thread, channel, samples, serial_buffer,
                   port, pool, tick, call>>

CallResume == UpdateTimer_resume /\ UNCHANGED window

---------------------------------------------------------------------------
(* The Timer threads.  The sleep between two iterations is not a state.    *)

\* One iteration under the lock: Stopped and leave the loop, or Fired.  The
\* channel has no capacity (mpsc::channel()): queue is the bound of the model
\* on the events it holds.
TimerLoop(i, queue) ==
    /\ timer_thread[i] = "running"
    /\ IF timer.stopped
       THEN /\ Len(channel) < queue + MaxTimers
            /\ channel' = Append(channel, "Stopped")
            /\ timer_thread' = [timer_thread EXCEPT ![i] = "joining"]
       ELSE /\ Len(channel) < queue
            /\ channel' = Append(channel, "Fired")
            /\ UNCHANGED timer_thread
    /\ UNCHANGED <<window, pixels, parameters, machine, caller, started, timer, worker_handle,
                   worker_lock, worker_thread, samples, serial_buffer,
                   port, pool, tick, call>>

TimerFire(i) == TimerLoop(i, MaxQueue)

\* The same iteration where the Worker may be left behind.
TimerBurst(i) == TimerLoop(i, MaxBurst)

\* worker.lock().take() and expect("some worker")
TimerTakeWorker(i) ==
    /\ timer_thread[i] = "joining"
    /\ timer_thread' = [timer_thread EXCEPT
                          ![i] = IF worker_handle THEN "join_wait" ELSE "panicked"]
    /\ worker_handle' = FALSE
    /\ UNCHANGED <<window, pixels, parameters, machine, caller, started, timer, worker_lock,
                   worker_thread, channel, samples, serial_buffer, port, pool,
                   tick, call>>

\* join().expect("join worker"): returns when the Worker has ended.
TimerJoinWorker(i) ==
    /\ timer_thread[i] = "join_wait"
    /\ worker_thread \in {"exited", "panicked"}
    /\ timer_thread' = [timer_thread EXCEPT
                          ![i] = IF worker_thread = "panicked"
                                 THEN "panicked" ELSE "exited"]
    /\ UNCHANGED <<window, pixels, parameters, machine, caller, started, timer, worker_handle,
                   worker_lock, worker_thread, channel, samples, serial_buffer,
                   port, pool, tick, call>>

---------------------------------------------------------------------------
(* The Worker thread.  Its locals (samples, serial_buffer, port, pool) are *)
(* built when it starts and dropped when it ends.  The steps between two   *)
(* recv() work on the locals alone, except for the throttle or resume of   *)
(* the timer, which runs under the timer lock.                             *)

\* A panic unwinds the thread: the locals are dropped (SerialPort and
\* OpcPool close in Drop) and the WorkerThread mutex is poisoned.
WorkerPanics ==
    /\ worker_thread' = "panicked"
    /\ worker_lock' = "poisoned"
    /\ samples' = ScreenSamples_new
    /\ port' = SerialPort_close(port)
    /\ pool' = OpcPool_close(pool)

\* The thread locks the WorkerThread for its whole run and builds its locals.
WorkerBegin ==
    /\ worker_thread = "spawned"
    /\ worker_lock = "free"
    /\ worker_lock' = "held"
    /\ worker_thread' = "recv"
    /\ samples' = ScreenSamples_new
    /\ serial_buffer' = new_serial_buffer(parameters)
    /\ port' = SerialPort_new
    /\ pool' = OpcPool_new
    /\ tick' = TickInit
    /\ UNCHANGED <<window, pixels, parameters, machine, caller, started, timer, timer_thread,
                   worker_handle, channel, call>>

\* worker.rx.recv()
WorkerRecv ==
    /\ worker_thread = "recv"
    /\ channel # <<>>
    /\ channel' = Tail(channel)
    /\ IF Head(channel) = "Fired"
       THEN /\ worker_thread' = "fired"
            /\ tick' = TickNew("fired", tick)
       ELSE /\ worker_thread' = "stopped"
            /\ tick' = TickNew("stopped", tick)
    /\ UNCHANGED <<window, pixels, parameters, machine, caller, started, timer, timer_thread,
                   worker_handle, worker_lock, samples, serial_buffer, port,
                   pool, call>>

\* Fired, with no capture resources: open the outputs, create the resources
\* if an output opened, and resume or throttle the timer.
FiredRebuild(env_port, connect, env_create) ==
    LET opened_port == SerialPort_open(port, env_port)
        opened_pool == OpcPool_open(pool, parameters, connect)
        any         == opened_port.result \/ opened_pool.result
        created     == create_resources(samples, parameters, machine, env_create)
        t1          == [Logged(Step(tick), <<"open", Bit(opened_port.result),
                                             Bit(opened_pool.result)>>)
                          EXCEPT !.lost = FALSE]
        t2          == IF any THEN Logged(t1, Call("create")) ELSE t1
    IN
    IF any /\ created.result = "panic"
    THEN /\ worker_thread' = "panicked"
         /\ worker_lock' = "poisoned"
         /\ samples' = ScreenSamples_new
         /\ port' = SerialPort_close(opened_port.port)
         /\ pool' = OpcPool_close(opened_pool.pool)
         /\ tick' = t2
         /\ UNCHANGED <<timer, serial_buffer>>
    ELSE
      /\ port' = opened_port.port
      /\ pool' = opened_pool.pool
      /\ worker_thread' = "take"
      /\ UNCHANGED worker_lock
      /\ IF any
         THEN /\ Len(created.samples.displays) <= MaxDisplays
              /\ samples' = created.samples
         ELSE UNCHANGED samples
      /\ IF any /\ created.result = "ok"
         THEN LET resume == TimerThread_resume(timer) IN
              /\ timer' = resume.timer
              /\ tick' = Logged(t2, <<"resume", Bit(resume.result), 0>>)
              /\ UNCHANGED serial_buffer
         ELSE LET throttle == TimerThread_throttle(timer)
                  t3       == Logged(t2, <<"throttle", Bit(throttle.result), 0>>)
              IN
              /\ timer' = throttle.timer
              /\ tick' = [(IF throttle.result THEN Logged(t3, Call("clear")) ELSE t3)
                             EXCEPT !.throttle = IF timer.throttled THEN "again"
                                                 ELSE "first"]
              /\ serial_buffer' = IF throttle.result THEN clear(serial_buffer)
                                  ELSE serial_buffer

\* The head of the Fired arm.
WorkerFired ==
    /\ worker_thread = "fired"
    /\ IF is_empty(samples)
       THEN \E env_port \in PortEnvs :
            \E connect \in [1..Len(parameters.servers) -> BOOLEAN] :
            \E env_create \in CreateEnvs(parameters, machine) :
               FiredRebuild(env_port, connect, env_create)
       ELSE /\ worker_thread' = "take"
            /\ tick' = Step(tick)
            /\ UNCHANGED <<timer, worker_lock, samples, serial_buffer, port,
                           pool>>
    /\ UNCHANGED <<window, pixels, parameters, machine, caller, started, timer_thread,
                   worker_handle, channel, call>>

\* let _ = samples.take_samples()
WorkerTake ==
    /\ worker_thread = "take"
    /\ \E env \in TakeEnvs(samples, parameters, machine) :
         LET taken == take_samples(samples, parameters, env) IN
         IF taken.result = "panic"
         THEN /\ WorkerPanics
              /\ UNCHANGED tick
         ELSE /\ samples' = taken.samples
              /\ tick' = [Logged(Step(tick), <<"take", Bit(taken.result = "ok"), 0>>)
                          EXCEPT !.fatal = taken.result = "fatal"]
              /\ worker_thread' = "send"
              /\ UNCHANGED <<worker_lock, port, pool>>
    /\ UNCHANGED <<window, pixels, parameters, machine, caller, started, timer, timer_thread,
                   worker_handle, channel, serial_buffer, call>>

\* The OPC loop from send k on: render_channel and pool.send(i, &pixels)
\* for each channel of each server.  writes[k]: the write of send k succeeds.
RECURSIVE OpcLoop(_, _, _, _, _)
OpcLoop(op, t, sends, writes, k) ==
    IF k > Len(sends) THEN [pool |-> op, tick |-> t]
    ELSE
      LET server == sends[k][1]
          sent   == OpcPool_send(op, server, writes[k])
          failed == server <= Len(op.connections) /\ op.connections[server]
                    /\ ~sent.result
      IN OpcLoop(sent.pool,
                 [t EXCEPT !.log  = Append(@, <<"opc", server, sends[k][2]>>),
                           !.lost = @ \/ failed],
                 sends, writes, k + 1)

\* The rest of the Fired arm: render_serial and port.send, then the OPC loop.
WorkerSend ==
    /\ worker_thread = "send"
    /\ LET rendered == render_serial(samples, serial_buffer) IN
       IF rendered.result = "panic"
       THEN /\ WorkerPanics
            /\ UNCHANGED <<serial_buffer, tick>>
       ELSE \E write_ok \in BOOLEAN :
            \E writes \in [1..Len(OpcSends(parameters)) -> BOOLEAN] :
              LET sent   == SerialPort_send(port, rendered.serial, write_ok)
                  t1     == [Logged(Step(tick), Call("serial")) EXCEPT
                               !.lost   = @ \/ (port.port_handle /\ ~sent.result),
                               !.frames = IF sent.written = <<>> THEN @
                                          ELSE Append(@, sent.written)]
                  looped == OpcLoop(pool, t1, OpcSends(parameters), writes, 1)
              IN /\ serial_buffer' = rendered.serial
                 /\ port' = sent.port
                 /\ pool' = looped.pool
                 /\ tick' = looped.tick
                 /\ worker_thread' = "recv"
                 /\ UNCHANGED <<worker_lock, samples>>
    /\ UNCHANGED <<window, pixels, parameters, machine, caller, started, timer, timer_thread,
                   worker_handle, channel, call>>

\* The Stopped arm: the all-off frame, then the teardown.
WorkerStopped ==
    /\ worker_thread = "stopped"
    /\ \E write_ok \in BOOLEAN :
         LET cleared == clear(serial_buffer)
             sent    == SerialPort_send(port, cleared, write_ok)
         IN /\ serial_buffer' = cleared
            /\ samples' = free_resources(samples)
            /\ port' = SerialPort_close(sent.port)
            /\ pool' = OpcPool_close(pool)
            /\ tick' = [tick EXCEPT
                          !.log    = <<Call("clear"), Call("serial"), Call("free"),
                                       Call("close_port"), Call("close_pool")>>,
                          !.frames = IF sent.written = <<>> THEN @
                                     ELSE Append(@, sent.written)]
    /\ worker_thread' = "ending"
    /\ UNCHANGED <<window, pixels, parameters, machine, caller, started, timer, timer_thread,
                   worker_handle, worker_lock, channel, call>>

\* The thread ends: its locals are dropped and the WorkerThread is unlocked.
WorkerEnd ==
    /\ worker_thread = "ending"
    /\ worker_thread' = "exited"
    /\ worker_lock' = "free"
    /\ samples' = ScreenSamples_new
    /\ port' = SerialPort_close(port)
    /\ pool' = OpcPool_close(pool)
    /\ UNCHANGED <<window, pixels, parameters, machine, caller, started, timer, timer_thread,
                   worker_handle, channel, serial_buffer, tick, call>>

---------------------------------------------------------------------------

CallerNext == CallStart \/ StartWorker \/ StartTimer \/ CallStop \/ StopJoin
              \/ CallResume

TimerNext == \E i \in DOMAIN timer_thread :
                TimerFire(i) \/ TimerTakeWorker(i) \/ TimerJoinWorker(i)

WorkerNext == WorkerBegin \/ WorkerRecv \/ WorkerFired \/ WorkerTake
              \/ WorkerSend \/ WorkerStopped \/ WorkerEnd

Next == CallerNext \/ TimerNext \/ WorkerNext

Spec == Init /\ [][Next]_vars

---------------------------------------------------------------------------
(* ScreenSamples called directly, as main.rs does: a panic ends the run.   *)

SampleCreate ==
    /\ call.result # "panic"
    /\ \E env \in CreateEnvs(parameters, machine) :
         LET created == create_resources(samples, parameters, machine, env) IN
         /\ Len(created.samples.displays) <= MaxDisplays
         /\ samples' = created.samples
         /\ call' = Called("create", <<>>, TRUE, created.result, call.n)
    /\ UNCHANGED <<window, pixels, parameters, machine, caller, started, timer, timer_thread,
                   worker_handle, worker_lock, worker_thread, channel,
                   serial_buffer, port, pool, tick>>

SampleTake ==
    /\ call.result # "panic"
    /\ call.n < MaxTakes
    /\ \E env \in TakeEnvs(samples, parameters, machine) :
         LET taken == take_samples(samples, parameters, env) IN
         /\ samples' = taken.samples
         /\ call' = Called("take", env.acq,
                           \A k \in DOMAIN env.map : env.map[k] = "ok",
                           taken.result, call.n + 1)
    /\ UNCHANGED <<window, pixels, parameters, machine, caller, started, timer, timer_thread,
                   worker_handle, worker_lock, worker_thread, channel,
                   serial_buffer, port, pool, tick>>

SampleFree ==
    /\ call.result # "panic"
    /\ samples' = free_resources(samples)
    /\ call' = Called("free", <<>>, TRUE, "ok", call.n)
    /\ UNCHANGED <<window, pixels, parameters, machine, caller, started, timer, timer_thread,
                   worker_handle, worker_lock, worker_thread, channel,
                   serial_buffer, port, pool, tick>>

SampleNext == SampleCreate \/ SampleTake \/ SampleFree

SampleSpec == SampleInit /\ [][SampleNext]_vars

LiftSpec == LiftInit /\ [][SampleNext]_vars

RaceSpec == RaceInit /\ [][Next]_vars

PairInit == InitWith(PairSettings, PairMachines, PipelineTimers)

PairSpec == PairInit /\ [][Next]_vars

\* The pipeline of RaceSettings with a Timer that is not held back by a
\* Worker whose tick takes longer than the Timer's delay.
BurstInit == InitWith(RaceSettings, RaceMachines, PipelineTimers)

BurstTimerNext == \E i \in DOMAIN timer_thread :
                     TimerBurst(i) \/ TimerTakeWorker(i) \/ TimerJoinWorker(i)

BurstNext == CallerNext \/ BurstTimerNext \/ WorkerNext

BurstSpec == BurstInit /\ [][BurstNext]_vars

---------------------------------------------------------------------------
(* PixelBuffer called directly: one buffer is allocated in one of its      *)
(* three shapes, and filled by add and reset by clear.  call records the shape,  *)
(* the channel, the words added since the buffer was allocated or cleared, *)
(* whether it was cleared, and the length and header it was allocated with.*)

\* Total LED counts of the Settings a serial buffer is allocated for.
SerialLedCounts == {1, 24, 256, 257, 65536}

BufferSettings ==
    { [min_brightness |-> 64,
       fade           |-> NoFade,
       displays       |-> << [positions |-> n] >>,
       servers        |-> <<>>] : n \in SerialLedCounts }

\* Channels an opc or bob buffer is allocated for; the second is the
\* channel of test::parse_opc_channel.
BufferChannels ==
    { OpcChannel(0, <<>>), OpcChannel(2, <<64, 4, 19, 29>>),
      OpcChannel(255, <<1>>), OpcChannel(1, <<85, 1>>),
      OpcChannel(7, <<16383>>) }

\* u32 words added: 0x01020304, 0x7F80FF01 and 0.
BufferWords == {16909060, 2139160321, 0}

Allocated(kind, opc_channel, pb) ==
    [op |-> "new", kind |-> kind, channel |-> opc_channel, added |-> <<>>,
     cleared |-> FALSE, size |-> Len(data(pb)), header |-> pb.offset]

BufferInit ==
    /\ InitWith(BufferSettings, RaceMachines, PipelineTimers)

BufferNewSerial ==
    /\ pixels = NoBuffer
    /\ window = NoWindow
    /\ pixels' = new_serial_buffer(parameters)
    /\ call' = Allocated("serial", OpcChannel(0, <<>>), pixels')
    /\ UNCHANGED <<window, parameters, machine, caller, started, timer, timer_thread,
                   worker_handle, worker_lock, worker_thread, channel, samples,
                   serial_buffer, port, pool, tick>>

BufferNewOpc ==
    /\ pixels = NoBuffer
    /\ window = NoWindow
    /\ \E opc_channel \in BufferChannels :
         /\ pixels' = new_opc_buffer(opc_channel)
         /\ call' = Allocated("opc", opc_channel, pixels')
    /\ UNCHANGED <<window, parameters, machine, caller, started, timer, timer_thread,
                   worker_handle, worker_lock, worker_thread, channel, samples,
                   serial_buffer, port, pool, tick>>

BufferNewBob ==
    /\ pixels = NoBuffer
    /\ window = NoWindow
    /\ \E opc_channel \in BufferChannels :
         /\ pixels' = new_bob_buffer(opc_channel)
         /\ call' = Allocated("bob", opc_channel, pixels')
    /\ UNCHANGED <<window, parameters, machine, caller, started, timer, timer_thread,
                   worker_handle, worker_lock, worker_thread, channel, samples,
                   serial_buffer, port, pool, tick>>

\* add: indexing past the end of the buffer panics before a byte is written
\* (the payload is a whole number of pixels).
BufferAdd ==
    /\ call.op \in {"new", "add", "clear"}
    /\ Len(pixels.buffer) <= MaxFill
    /\ Len(call.added) < MaxAdds
    /\ \E rgba_pixel \in BufferWords :
         IF pixels.position >= Len(pixels.buffer)
         THEN /\ call' = [call EXCEPT !.op = "panicked"]
              /\ UNCHANGED pixels
         ELSE /\ pixels' = add(pixels, WordBytes(rgba_pixel))
              /\ call' = [call EXCEPT !.op = "add",
                                      !.added = Append(@, rgba_pixel)]
    /\ UNCHANGED <<window, parameters, machine, caller, started, timer, timer_thread,
                   worker_handle, worker_lock, worker_thread, channel, samples,
                   serial_buffer, port, pool, tick>>

BufferClear ==
    /\ call.op \in {"new", "add", "clear"}
    /\ Len(pixels.buffer) <= MaxFill
    /\ pixels' = clear(pixels)
    /\ call' = [call EXCEPT !.op = "clear", !.added = <<>>, !.cleared = TRUE]
    /\ UNCHANGED <<window, parameters, machine, caller, started, timer, timer_thread,
                   worker_handle, worker_lock, worker_thread, channel, samples,
                   serial_buffer, port, pool, tick>>

BufferNext == BufferNewSerial \/ BufferNewOpc \/ BufferNewBob \/ BufferAdd
              \/ BufferClear

BufferSpec == BufferInit /\ [][BufferNext]_vars

---------------------------------------------------------------------------
(* OpcPool called directly: open, send and close in any order.  call       *)
(* records the call and its inputs: for open whether the connect to each   *)
(* server succeeds, for send the server and whether the write succeeds.    *)

PoolSettings ==
    { [min_brightness |-> 64,
       fade           |-> NoFade,
       displays       |-> << [positions |-> 1] >>,
       servers        |-> servers] :
      servers \in { << Server(FALSE, 1), Server(TRUE, 1) >>,
                    << Server(FALSE, 1), Server(TRUE, 1), Server(FALSE, 1) >> } }

PoolCalled(op, connect, server, write_ok, result, written) ==
    [op |-> op, connect |-> connect, server |-> server, write_ok |-> write_ok,
     result |-> result, written |-> written]

PoolInit ==
    /\ InitWith(PoolSettings, RaceMachines, PipelineTimers)

PoolOpen ==
    /\ \E connect \in [1..Len(parameters.servers) -> BOOLEAN] :
         LET opened == OpcPool_open(pool, parameters, connect) IN
         /\ pool' = opened.pool
         /\ call' = PoolCalled("open", connect, 0, TRUE, opened.result, FALSE)
    /\ UNCHANGED <<window, pixels, parameters, machine, caller, started, timer,
                   timer_thread, worker_handle, worker_lock, worker_thread,
                   channel, samples, serial_buffer, port, tick>>

\* send(server, &pixels) with a 0-based index up to the number of servers,
\* so that one index is past the end.
PoolSend ==
    /\ \E server \in 1..(Len(parameters.servers) + 1), write_ok \in BOOLEAN :
         LET sent == OpcPool_send(pool, server, write_ok) IN
         /\ pool' = sent.pool
         /\ call' = PoolCalled("send", <<>>, server, write_ok, sent.result,
                               sent.written)
    /\ UNCHANGED <<window, pixels, parameters, machine, caller, started, timer,
                   timer_thread, worker_handle, worker_lock, worker_thread,
                   channel, samples, serial_buffer, port, tick>>

PoolClose ==
    /\ pool' = OpcPool_close(pool)
    /\ call' = PoolCalled("close", <<>>, 0, TRUE, TRUE, FALSE)
    /\ UNCHANGED <<window, pixels, parameters, machine, caller, started, timer,
                   timer_thread, worker_handle, worker_lock, worker_thread,
                   channel, samples, serial_buffer, port, tick>>

PoolNext == PoolOpen \/ PoolSend \/ PoolClose

PoolSpec == PoolInit /\ [][PoolNext]_vars

---------------------------------------------------------------------------
(* SerialPort called directly: open, send and close in any order.  open()  *)
(* runs in steps: one for each iteration of the probe loop, one for the    *)
(* final wait and one for the reopen of the identified port.               *)
(*                                                                         *)
(* machine.ports[n] is what COMn does when it is probed: "absent"          *)
(* (get_port fails), "fail" (ReadFile fails at once), or how the read on   *)
(* it completes: "cookie" (the 4 bytes 'A','d','a','\n'), "other" (4 other *)
(* bytes), "short" (fewer bytes, at the read timeout) or "error".          *)
(*                                                                         *)
(* ReadFile is given the addresses of the buffer and the OVERLAPPED of the *)
(* local `port`, which is then moved into pending_ports: the read          *)
(* completes into the stack slot of the local, not into the entry the      *)
(* loops look at.  An entry therefore shows for good what the slot held    *)
(* when it was moved (seen): the completion of its own read, if that came  *)
(* before the move; "pending"; or the completion of an earlier port's read *)
(* that was still outstanding and landed in the slot after ReadFile had    *)
(* returned for the new local.                                             *)

PortKinds == {"absent", "fail", "cookie", "other", "short", "error"}

SerialMachines ==
    { [adapters |-> <<>>, frames |-> {}, ports |-> ports] :
         ports \in [1..ProbePorts -> PortKinds] }

\* An entry of pending_ports: Some(PortResources), or None.
Pending(port_number, seen) == [port_number |-> port_number, seen |-> seen]

NoPending == Pending(0, "none")

\* The poll at the head of an iteration, from entry i on: a completed read
\* with the cookie wins and ends the poll, a read still pending is left, and
\* any other entry is set to None.
RECURSIVE PollPending(_, _)
PollPending(pending_ports, i) ==
    IF i > Len(pending_ports) THEN [pending_ports |-> pending_ports, port_number |-> 0]
    ELSE LET resources == pending_ports[i] IN
         IF resources.seen \in {"none", "pending"}
         THEN PollPending(pending_ports, i + 1)
         ELSE IF resources.seen = "cookie"
              THEN [pending_ports |-> pending_ports,
                    port_number   |-> resources.port_number]
              ELSE PollPending([pending_ports EXCEPT ![i] = NoPending], i + 1)

\* The final wait: GetOverlappedResult blocks on the event and then answers
\* from the entry, so an entry that shows a pending read is no match either.
RECURSIVE WaitPending(_, _)
WaitPending(pending_ports, i) ==
    IF i > Len(pending_ports) THEN [pending_ports |-> pending_ports, port_number |-> 0]
    ELSE LET resources == pending_ports[i] IN
         IF resources.seen = "none"
         THEN WaitPending(pending_ports, i + 1)
         ELSE IF resources.seen = "cookie"
              THEN [pending_ports |-> pending_ports,
                    port_number   |-> resources.port_number]
              ELSE WaitPending([pending_ports EXCEPT ![i] = NoPending], i + 1)

\* What the entry of a port can show once it is moved into pending_ports;
\* outstanding: the ports pushed whose read has not completed yet.
SeenAtPush(m, port_number, outstanding) ==
    {m.ports[port_number], "pending"} \cup {m.ports[e] : e \in outstanding}

\* A call of SerialPort in progress or returned.  pc: "probe", "wait",
\* "reopen" or "done"; k: iterations of the probe loop made; found: the
\* port the probe has identified; probed: the ports a read was started on;
\* attempted: the port numbers given to get_port by the probe, in order;
\* probing: this open() ran the probe; held: the call found the handle
\* held; reopen: get_port(port_number, false) gave a handle.
SerialCalled(op, pc, k, pending_ports, outstanding, found, probed) ==
    [op |-> op, pc |-> pc, k |-> k, pending_ports |-> pending_ports,
     outstanding |-> outstanding, found |-> found, probed |-> probed,
     attempted |-> <<>>, probing |-> FALSE, held |-> FALSE,
     reopen |-> FALSE, result |-> FALSE, ok |-> FALSE,
     cb_written |-> 0, written |-> <<>>]

SerialIdle == SerialCalled("none", "done", 0, <<>>, {}, 0, {})

SerialInit ==
    /\ parameters \in RaceSettings
    /\ machine \in SerialMachines
    /\ caller = CallerIdle
    /\ started = "no"
    /\ timer = TimerThread_new
    /\ timer_thread = [i \in 1..PipelineTimers |-> "none"]
    /\ worker_handle = FALSE
    /\ worker_lock = "free"
    /\ worker_thread = "none"
    /\ channel = <<>>
    /\ samples = ScreenSamples_new
    /\ serial_buffer = new_serial_buffer(parameters)
    /\ port = SerialPort_new
    /\ pool = OpcPool_new
    /\ tick = TickInit
    /\ call = SerialIdle
    /\ pixels = NoBuffer
    /\ window = NoWindow

\* open() is called: with a handle or a port number it skips the probe.
SerialOpenBegin ==
    /\ call.pc = "done"
    /\ call' = [SerialCalled("open",
                             IF port.port_handle \/ port.port_number # 0
                             THEN "reopen" ELSE "probe",
                             0, <<>>, {}, 0, {})
                  EXCEPT !.probing = ~port.port_handle /\ port.port_number = 0,
                         !.held    = port.port_handle]
    /\ UNCHANGED <<window, pixels, parameters, machine, caller, started, timer,
                   timer_thread, worker_handle, worker_lock, worker_thread,
                   channel, samples, serial_buffer, port, pool, tick>>

\* A probe loop that ends one port early.
ProbeLoopEnds_early(port_number) == port_number = ProbePorts - 1

\* for port_number in 0_u8..255, probing port_number + 1: the iteration
\* that probes the last candidate ends the loop.
ProbeLoopEnds(port_number) == port_number = ProbePorts

\* One iteration of the probe loop: poll the pending reads; with a match,
\* clear the list and leave the loop; else probe the next port.
SerialProbe ==
    /\ call.op = "open" /\ call.pc = "probe"
    /\ LET polled      == PollPending(call.pending_ports, 1)
           port_number == call.k + 1
           next_pc     == IF ProbeLoopEnds(port_number) THEN "wait" ELSE "probe"
       IN
       IF polled.port_number # 0
       THEN call' = [call EXCEPT !.found = polled.port_number,
                                 !.pending_ports = <<>>,
                                 !.pc = "reopen"]
       ELSE IF machine.ports[port_number] \in {"absent", "fail"}
            THEN call' = [call EXCEPT !.pending_ports = polled.pending_ports,
                                      !.attempted = Append(@, port_number),
                                      !.k = port_number,
                                      !.pc = next_pc]
            ELSE \E seen \in SeenAtPush(machine, port_number, call.outstanding) :
                   call' = [call EXCEPT
                      !.pending_ports = Append(polled.pending_ports,
                                               Pending(port_number, seen)),
                      !.outstanding =
                          IF seen = machine.ports[port_number] THEN @
                          ELSE IF seen = "pending" THEN @ \cup {port_number}
                          ELSE (@ \ {CHOOSE e \in @ : machine.ports[e] = seen})
                               \cup {port_number},
                      !.probed = @ \cup {port_number},
                      !.attempted = Append(@, port_number),
                      !.k = port_number,
                      !.pc = next_pc]
    /\ UNCHANGED <<window, pixels, parameters, machine, caller, started, timer,
                   timer_thread, worker_handle, worker_lock, worker_thread,
                   channel, samples, serial_buffer, port, pool, tick>>

\* The wait for the outstanding reads after the loop.
SerialWait ==
    /\ call.op = "open" /\ call.pc = "wait"
    /\ LET waited == WaitPending(call.pending_ports, 1) IN
       call' = [call EXCEPT !.found = waited.port_number,
                            !.pending_ports = <<>>,
                            !.pc = "reopen"]
    /\ UNCHANGED <<window, pixels, parameters, machine, caller, started, timer,
                   timer_thread, worker_handle, worker_lock, worker_thread,
                   channel, samples, serial_buffer, port, pool, tick>>

\* The end of open(): the port identified is opened for writing.
SerialOpenEnd ==
    /\ call.op = "open" /\ call.pc = "reopen"
    /\ \E reopen \in BOOLEAN :
         LET opened == SerialPort_open(port, [found |-> call.found,
                                              reopen |-> reopen]) IN
         /\ reopen => opened.port.port_number # 0 /\ ~port.port_handle
         /\ port' = opened.port
         /\ call' = [call EXCEPT !.pc = "done", !.reopen = reopen,
                                  !.result = opened.result]
    /\ UNCHANGED <<window, pixels, parameters, machine, caller, started, timer,
                   timer_thread, worker_handle, worker_lock, worker_thread,
                   channel, samples, serial_buffer, pool, tick>>

\* send(&serial_buffer): WriteFile returns ok with cb_written bytes written.
SerialSend ==
    /\ call.pc = "done"
    /\ \E ok \in BOOLEAN :
       \E cb_written \in {0, Len(serial_buffer.buffer) - 1, Len(serial_buffer.buffer)} :
         LET sent == SerialPort_send(port, serial_buffer,
                                     WriteComplete(ok, cb_written, serial_buffer)) IN
         /\ port.port_handle \/ (ok /\ cb_written = 0)
         /\ port' = sent.port
         /\ call' = [SerialCalled("send", "done", 0, <<>>, {}, 0, {})
                       EXCEPT !.held = port.port_handle,
                              !.result = sent.result,
                              !.ok = ok, !.cb_written = cb_written,
                              !.written = sent.written]
    /\ UNCHANGED <<window, pixels, parameters, machine, caller, started, timer,
                   timer_thread, worker_handle, worker_lock, worker_thread,
                   channel, samples, serial_buffer, pool, tick>>

SerialClose ==
    /\ call.pc = "done"
    /\ port' = SerialPort_close(port)
    /\ call' = [SerialCalled("close", "done", 0, <<>>, {}, 0, {})
                  EXCEPT !.held = port.port_handle]
    /\ UNCHANGED <<window, pixels, parameters, machine, caller, started, timer,
                   timer_thread, worker_handle, worker_lock, worker_thread,
                   channel, samples, serial_buffer, pool, tick>>

SerialNext == SerialOpenBegin \/ SerialProbe \/ SerialWait \/ SerialOpenEnd
              \/ SerialSend \/ SerialClose

SerialSpec == SerialInit /\ [][SerialNext]_vars

---------------------------------------------------------------------------
(* settings.rs: strip_comments.  A text is the sequence of its lines       *)
(* (json.lines()), a line the sequence of its characters: "q" is the       *)
(* double quote, "b" the backslash, "s" the slash, "x" the star, "w" a     *)
(* space and "a" any other character.                                      *)

Drop(line, n) == SubSeq(line, n + 1, Len(line))

Take(line, n) == SubSeq(line, 1, n)

\* start_token, (?:"|(?:/[/*])): the leftmost match in line from i on, as
\* <<start, end>> with end exclusive of the rest; <<0, 0>> for no match.
RECURSIVE start_token(_, _)
start_token(line, i) ==
    IF i > Len(line) THEN <<0, 0>>
    ELSE IF line[i] = "q" THEN <<i, i>>
    ELSE IF line[i] = "s" /\ i < Len(line) /\ line[i + 1] \in {"s", "x"}
         THEN <<i, i + 1>>
    ELSE start_token(line, i + 1)

\* quoted, (?m)^(?:[^"]|(?:\\"))*: the end of the match at the start of
\* line, the characters matched so far being n.  Each repetition takes the
\* first alternative that matches: [^"], then \".
RECURSIVE quoted(_, _)
quoted(line, n) ==
    IF n < Len(line) /\ line[n + 1] # "q" THEN quoted(line, n + 1)
    ELSE IF n + 1 < Len(line) /\ line[n + 1] = "b" /\ line[n + 2] = "q"
         THEN quoted(line, n + 2)
    ELSE n

\* end_block, (?:\*/): the end of the leftmost match from i on; 0 for none.
RECURSIVE end_block(_, _)
end_block(line, i) ==
    IF i >= Len(line) THEN 0
    ELSE IF line[i] = "x" /\ line[i + 1] = "s" THEN i + 1
    ELSE end_block(line, i + 1)

\* empty_line, (?m)^\s*$, on a content without line breaks.
empty_line(content) == \A i \in DOMAIN content : content[i] = "w"

\* The loop over one line: state is "Parsed", "QuotedString" or
\* "CommentBlock".
RECURSIVE StripLine(_, _, _)
StripLine(state, line, content) ==
    IF line = <<>> THEN [state |-> state, content |-> content]
    ELSE IF state = "Parsed"
    THEN LET mat == start_token(line, 1) IN
         IF mat = <<0, 0>>
         THEN [state |-> state, content |-> content \o line]
         ELSE IF line[mat[1]] = "q"
         THEN StripLine("QuotedString", Drop(line, mat[2]),
                        content \o Take(line, mat[2]))
         ELSE IF line[mat[2]] = "x"
         THEN StripLine("CommentBlock", Drop(line, mat[2]),
                        content \o Take(line, mat[1] - 1))
         ELSE [state |-> state, content |-> content \o Take(line, mat[1] - 1)]
    ELSE IF state = "QuotedString"
    THEN LET mat_end   == quoted(line, 0)
             end_quote == IF mat_end < Len(line) THEN mat_end + 1 ELSE mat_end
         IN StripLine(IF mat_end < Len(line) THEN "Parsed" ELSE state,
                      Drop(line, end_quote), content \o Take(line, end_quote))
    ELSE LET mat_end == end_block(line, 1) IN
         IF mat_end = 0 THEN [state |-> state, content |-> content]
         ELSE StripLine("Parsed", Drop(line, mat_end), content)

\* The loop over the lines from line k on; output is what is joined.
RECURSIVE StripLines(_, _, _, _)
StripLines(lines, k, state, output) ==
    IF k > Len(lines) THEN output
    ELSE LET stripped == StripLine(state, lines[k], <<>>) IN
         StripLines(lines, k + 1, stripped.state,
                    IF empty_line(stripped.content) THEN output
                    ELSE Append(output, stripped.content))

strip_comments(json) == StripLines(json, 1, "Parsed", <<>>)

\* The texts of up to n characters over an alphabet.
RECURSIVE Lines(_, _)
Lines(alphabet, n) ==
    IF n = 0 THEN {<<>>}
    ELSE LET shorter == Lines(alphabet, n - 1) IN
         shorter \cup {Append(l, c) : l \in {s \in shorter : Len(s) = n - 1},
                                      c \in alphabet}

StripTexts ==
    {<<l>> : l \in Lines({"q", "b", "s", "x", "a"}, MaxLine)}
    \cup {<<l1, l2>> : l1, l2 \in Lines({"q", "s", "x", "a", "w"}, MaxSplit)}

\* A text read from the configuration file, and strip_comments called on it.
Loaded(json) == [op |-> "load", json |-> json, output |-> <<>>]

Stripped(json, output) == [op |-> "strip", json |-> json, output |-> output]

StripInit ==
    /\ parameters \in RaceSettings
    /\ machine \in RaceMachines
    /\ caller = CallerIdle
    /\ started = "no"
    /\ timer = TimerThread_new
    /\ timer_thread = [i \in 1..PipelineTimers |-> "none"]
    /\ worker_handle = FALSE
    /\ worker_lock = "free"
    /\ worker_thread = "none"
    /\ channel = <<>>
    /\ samples = ScreenSamples_new
    /\ serial_buffer = new_serial_buffer(parameters)
    /\ port = SerialPort_new
    /\ pool = OpcPool_new
    /\ tick = TickInit
    /\ call \in {Loaded(json) : json \in StripTexts}
    /\ pixels = NoBuffer
    /\ window = NoWindow

\* strip_comments(json) is called on the text.
StripComments ==
    /\ call.op = "load"
    /\ call' = Stripped(call.json, strip_comments(call.json))
    /\ UNCHANGED <<window, pixels, parameters, machine, caller, started, timer,
                   timer_thread, worker_handle, worker_lock, worker_thread,
                   channel, samples, serial_buffer, port, pool, tick>>

StripNext == StripComments

StripSpec == StripInit /\ [][StripNext]_vars

----------------------------------------------------------------------------
(* settings.rs: OpcPixelRange from its JSON form, with the Gaussian blur   *)
(* kernel. The weights are f64: a positive f64 is <<hi, lo, e>>, the value *)
(* (hi * 2^27 + lo) * 2^e with a 53-bit mantissa (2^25 <= hi < 2^26,       *)
(* 0 <= lo < 2^27), and every operation rounds to nearest, ties to even.   *)

RECURSIVE Pow2(_)
Pow2(n) == IF n = 0 THEN 1 ELSE 2 * Pow2(n - 1)

\* 2^27, one more than the largest limb
LIMB == Pow2(27)

\* 1.0
F64_ONE == <<Pow2(25), 0, -52>>

\* 0.0
F64_ZERO == <<0, 0, 0>>

\* An integer of two limbs, hi * 2^27 + lo, shifted right by d bits; the
\* third element tells whether a one bit was shifted out.
RECURSIVE ShiftRight(_, _, _, _)
ShiftRight(hi, lo, sticky, d) ==
    IF d >= 27 THEN ShiftRight(0, hi, sticky \/ lo # 0, d - 27)
    ELSE LET p == Pow2(d)
         IN  <<hi \div p, (hi % p) * Pow2(27 - d) + (lo \div p),
               sticky \/ (lo % p) # 0>>

\* The f64 nearest to (hi * 2^27 + lo [+ a fraction if sticky]) * 2^e, ties
\* to even, where the integer has 53 + k bits and its low k bits are dropped.
RoundF64(hi, lo, sticky, k, e) ==
    LET kept  == ShiftRight(hi, lo, FALSE, k)
        rest  == lo % Pow2(k)
        half  == Pow2(k - 1)
        up    == \/ rest > half
                 \/ rest = half /\ sticky
                 \/ rest = half /\ (kept[2] % 2) = 1
        lo1   == kept[2] + (IF up THEN 1 ELSE 0)
        hi1   == kept[1] + (lo1 \div LIMB)
    IN  IF hi1 = Pow2(26) THEN <<Pow2(25), 0, e + k + 1>>
        ELSE <<hi1, lo1 % LIMB, e + k>>

\* 2.0 * a
F64Twice(a) == <<a[1], a[2], a[3] + 1>>

\* a + b for a and b that are positive or 0.0
F64Add(a, b) ==
    IF a = F64_ZERO THEN b ELSE IF b = F64_ZERO THEN a ELSE
    LET x   == IF a[3] >= b[3] THEN a ELSE b
        y   == IF a[3] >= b[3] THEN b ELSE a
        \* three more bits under the larger operand's mantissa
        xlo == x[2] * 8
        xhi == x[1] * 8 + (xlo \div LIMB)
        ylo == y[2] * 8
        yhi == y[1] * 8 + (ylo \div LIMB)
        ys  == ShiftRight(yhi, ylo % LIMB, FALSE, x[3] - y[3])
        lo  == (xlo % LIMB) + ys[2]
        hi  == xhi + ys[1] + (lo \div LIMB)
    IN  IF hi >= Pow2(29)
        THEN RoundF64(hi, lo % LIMB, ys[3], 4, x[3] - 3)
        ELSE RoundF64(hi, lo % LIMB, ys[3], 3, x[3] - 3)

\* Long division of two-limb integers: n more bits of rem / den appended to
\* the quotient <<qhi, qlo>>; the result's third element tells whether the
\* division left a remainder.
RECURSIVE DivBits(_, _, _, _, _, _, _)
DivBits(rhi, rlo, dhi, dlo, qhi, qlo, n) ==
    IF n = 0 THEN <<qhi, qlo, rhi # 0 \/ rlo # 0>>
    ELSE LET bit  == rhi > dhi \/ (rhi = dhi /\ rlo >= dlo)
             slo  == IF bit THEN rlo - dlo ELSE rlo
             shi  == IF bit THEN rhi - dhi ELSE rhi
             tlo  == IF slo < 0 THEN slo + LIMB ELSE slo
             thi  == IF slo < 0 THEN shi - 1 ELSE shi
             q2   == 2 * qlo + (IF bit THEN 1 ELSE 0)
         IN  DivBits(2 * thi + ((2 * tlo) \div LIMB), (2 * tlo) % LIMB,
                     dhi, dlo, 2 * qhi + (q2 \div LIMB), q2 % LIMB, n - 1)

\* a / b for positive a and b
F64Div(a, b) ==
    LET ge == a[1] > b[1] \/ (a[1] = b[1] /\ a[2] >= b[2])
        n  == IF ge THEN 54 ELSE 55
        q  == DivBits(a[1], a[2], b[1], b[2], 0, 0, n)
    IN  RoundF64(q[1], q[2], q[3], 1, a[3] - b[3] - (n - 1))

\* (-(diff * diff) / denominator).exp() for x below kernel_radius, where
\* diff = x - kernel_radius and denominator = kernel_radius^2 / 4.5: the
\* f64 values the loop computes, listed by kernel_radius and then by x.
Gaussian ==
       (1 :> << <<47712776, 110478359, -59>> >>)
    @@ (2 :> << <<47712776, 110478359, -59>>, <<43574116, 74951456, -54>> >>)
    @@ (3 :> << <<47712776, 110478359, -59>>, <<36328788, 62882252, -55>>,
            <<40703583, 74421770, -53>> >>)
    @@ (4 :> << <<47712776, 110478359, -59>>, <<42713186, 513631, -56>>,
            <<43574116, 74951456, -54>>, <<50656428, 25728790, -53>> >>)
    @@ (5 :> << <<47712776, 110478359, -59>>, <<60274242, 85272570, -57>>,
            <<53123027, 71177927, -55>>, <<65330781, 119966739, -54>>,
            <<56054035, 2798480, -53>> >>)
    @@ (6 :> << <<47712776, 110478359, -59>>, <<47176923, 33522812, -57>>,
            <<36328788, 62882252, -55>>, <<43574116, 74951456, -54>>,
            <<40703583, 74421770, -53>>, <<59223364, 82674210, -53>> >>)
    @@ (7 :> << <<47712776, 110478359, -59>>, <<39361272, 111573673, -57>>,
            <<54046204, 4175814, -56>>, <<61757951, 118196895, -55>>,
            <<58728944, 127110374, -54>>, <<46477540, 79008410, -53>>,
            <<61220334, 104063352, -53>> >>)
    @@ (58 :> << <<47712776, 110478359, -59>>, <<55647321, 30799105, -59>>,
            <<64727961, 23167571, -59>>, <<37544618, 13753777, -58>>,
            <<43438172, 54219638, -58>>, <<50122588, 87674018, -58>>,
            <<57681100, 20267753, -58>>, <<66202085, 90055571, -58>>,
            <<37889415, 88826432, -57>>, <<43254593, 44645056, -57>>,
            <<49247552, 90758529, -57>>, <<55921030, 103030641, -57>>,
            <<63329167, 27321451, -57>>, <<35763538, 97130457, -56>>,
            <<40285177, 80465164, -56>>, <<45257251, 59155793, -56>>,
            <<50707145, 43227229, -56>>, <<56661522, 117657702, -56>>,
            <<63145937, 124215947, -56>>, <<35092207, 110610283, -55>>,
            <<38899503, 54514368, -55>>, <<43004659, 101873520, -55>>,
            <<47416016, 124854465, -55>>, <<52140202, 123498898, -55>>,
            <<57181883, 116855618, -55>>, <<62543516, 68009484, -55>>,
            <<34112553, 81257038, -54>>, <<37111991, 27552768, -54>>,
            <<40267287, 79405576, -54>>, <<43574116, 74951456, -54>>,
            <<47026526, 33729210, -54>>, <<50616871, 124758738, -54>>,
            <<54335766, 107206023, -54>>, <<58172053, 21678069, -54>>,
            <<62112795, 122668799, -54>>, <<66143300, 18251769, -54>>,
            <<35123577, 12243083, -53>>, <<37203149, 86394257, -53>>,
            <<39300563, 16775120, -53>>, <<41405299, 86220339, -53>>,
            <<43506203, 40418467, -53>>, <<45591568, 50132404, -53>>,
            <<47649239, 78778271, -53>>, <<49666723, 67059405, -53>>,
            <<51631309, 89852465, -53>>, <<53530200, 10025758, -53>>,
            <<55350645, 2763594, -53>>, <<57080083, 76476301, -53>>,
            <<58706286, 50237294, -53>>, <<60217498, 89322890, -53>>,
            <<61602581, 11172399, -53>>, <<62851145, 133700663, -53>>,
            <<63953686, 132579391, -53>>, <<64901699, 34247487, -53>>,
            <<65687788, 105914517, -53>>, <<66305768, 50670951, -53>>,
            <<66750738, 92331668, -53>>, <<67019152, 126672118, -53>> >>)
    @@ (90 :> << <<47712776, 110478359, -59>>, <<52701486, 84211030, -59>>,
            <<58147157, 83990185, -59>>, <<64084288, 26475625, -59>>,
            <<35274599, 97791163, -58>>, <<38790025, 127853774, -58>>,
            <<42608426, 70055471, -58>>, <<46750727, 67490777, -58>>,
            <<51238770, 81025904, -58>>, <<56095300, 70329482, -58>>,
            <<61343945, 111636012, -58>>, <<67009192, 118369768, -58>>,
            <<36558176, 20036846, -57>>, <<39845758, 104604508, -57>>,
            <<43380757, 83032657, -57>>, <<47176923, 33522812, -57>>,
            <<51248309, 98084012, -57>>, <<55609236, 5296766, -57>>,
            <<60274242, 85272570, -57>>, <<65258043, 2665638, -57>>,
            <<35287735, 13794202, -56>>, <<38120709, 2561078, -56>>,
            <<41135388, 90832933, -56>>, <<44339183, 66458806, -56>>,
            <<47739429, 115687074, -56>>, <<51343351, 82659154, -56>>,
            <<55158018, 16832692, -56>>, <<59190300, 9220497, -56>>,
            <<63446823, 6248506, -56>>, <<33966959, 79743192, -55>>,
            <<36328788, 62882252, -55>>, <<38811694, 82581052, -55>>,
            <<41418250, 21519934, -55>>, <<44150775, 100883517, -55>>,
            <<47011313, 3901721, -55>>, <<50001596, 115698874, -55>>,
            <<53123027, 71177927, -55>>, <<56376643, 4814795, -55>>,
            <<59763091, 99817581, -55>>, <<63282605, 75226907, -55>>,
            <<66934973, 116466187, -55>>, <<35359759, 29092425, -54>>,
            <<37317534, 102821663, -54>>, <<39339971, 101032900, -54>>,
            <<41425961, 19739, -54>>, <<43574116, 74951456, -54>>,
            <<45782767, 47069956, -54>>, <<48049950, 638423, -54>>,
            <<50373402, 131670042, -54>>, <<52750562, 13717633, -54>>,
            <<55178557, 78483906, -54>>, <<57654212, 89218222, -54>>,
            <<60174043, 121177147, -54>>, <<62734263, 32705185, -54>>,
            <<65330781, 119966739, -54>>, <<33979608, 4830968, -53>>,
            <<35307447, 45065032, -53>>, <<36646434, 57880353, -53>>,
            <<37993961, 110459214, -53>>, <<39347295, 91169273, -53>>,
            <<40703583, 74421770, -53>>, <<42059863, 7645708, -53>>,
            <<43413071, 59207917, -53>>, <<44760056, 12221206, -53>>,
            <<46097585, 114619259, -53>>, <<47422363, 23432763, -53>>,
            <<48731036, 130554830, -53>>, <<50020216, 26804550, -53>>,
            <<51286484, 196372, -53>>, <<52526412, 54902611, -53>>,
            <<53736577, 63358455, -53>>, <<54913574, 99793171, -53>>,
            <<56054035, 2798480, -53>>, <<57154640, 32543983, -53>>,
            <<58212139, 58598542, -53>>, <<59223364, 82674210, -53>>,
            <<60185246, 68540228, -53>>, <<61094830, 4039033, -53>>,
            <<61949289, 46417541, -53>>, <<62745942, 65470065, -53>>,
            <<63482265, 46758282, -53>>, <<64155904, 133235251, -53>>,
            <<64764692, 23668980, -53>>, <<65306652, 131284771, -53>>,
            <<65780019, 61729883, -53>>, <<66183239, 36695073, -53>>,
            <<66514984, 18897889, -53>>, <<66774157, 19387019, -53>>,
            <<66959898, 103258614, -53>>, <<67071591, 87532290, -53>> >>)

\* let weight = (-(diff * diff) / denominator).exp()
weight(kernel_radius, x) == Gaussian[kernel_radius][x + 1]

\* weights[lo..hi] added to sum one after another, in that order; the sum
\* of the first half is evaluated before the second half is added to it.
RECURSIVE F64Sum(_, _, _, _)
F64Sum(sum, weights, lo, hi) ==
    IF lo > hi THEN sum
    ELSE IF lo = hi THEN F64Add(sum, weights[lo])
    ELSE LET mid   == (lo + hi) \div 2
             first == F64Sum(sum, weights, lo, mid)
         IN  IF first # <<>> THEN F64Sum(first, weights, mid + 1, hi)
             ELSE first

\* total after the loop over 0..kernel_radius: 1.0, and total += 2.0 * weight
\* for each x in turn
total(kernel_radius) ==
    F64Sum(F64_ONE,
           [i \in 1..kernel_radius |-> F64Twice(weight(kernel_radius, i - 1))],
           1, kernel_radius)

\* kernel_weights without the division by total
kernel_weights_not_normalized(kernel_radius) ==
    LET length == 2 * kernel_radius + 1
    IN  [i \in 1..length |->
            IF i - 1 = kernel_radius THEN F64_ONE
            ELSE IF i - 1 < kernel_radius
                 THEN Gaussian[kernel_radius][i]
                 ELSE Gaussian[kernel_radius][length - i + 1]]

\* kernel_weights: the midpoint 1.0, a weight mirrored on both sides of it,
\* and every element divided by total
kernel_weights(kernel_radius) ==
    LET length  == 2 * kernel_radius + 1
        sum     == total(kernel_radius)
        raw     == [i \in 1..length |->
                       IF i - 1 = kernel_radius THEN F64_ONE
                       ELSE IF i - 1 < kernel_radius
                            THEN weight(kernel_radius, i - 1)
                            ELSE weight(kernel_radius, length - i)]
    IN  [i \in 1..length |-> F64Div(raw[i], sum)]

\* pixel_range.sample_count += display.len() for each display
RECURSIVE sample_count(_)
sample_count(display_index) ==
    IF display_index = <<>> THEN 0
    ELSE Len(Head(display_index)) + sample_count(Tail(display_index))

\* impl From<JsonOpcPixelRange> for OpcPixelRange
OpcPixelRange(json) ==
    LET count  == sample_count(json.displayIndex)
        blur   == count > 1 /\ json.pixelCount >= 3 * count
        radius == IF blur THEN json.pixelCount \div (2 * count) ELSE 0
    IN  [pixel_count    |-> json.pixelCount,
         display_index  |-> json.displayIndex,
         sample_count   |-> count,
         kernel_radius  |-> radius,
         kernel_weights |-> IF blur THEN kernel_weights(radius) ELSE <<>>]

\* The weights summed as the parse_opc_pixel_range test sums them:
\* reduce(|total, weight| total + weight)
reduce(weights) == F64Sum(weights[1], weights, 2, Len(weights))

\* The JSON pixel ranges converted: every pixelCount up to MaxRange with the
\* displayIndex shapes below, the ranges of the settings in main.rs and of
\* the parse_opc_pixel_range test, and two long ranges fed by two samples.
DisplayIndexes ==
    { <<>>, << <<>> >>, << <<0>> >>, << <<0, 1>> >>, << <<0>>, <<1>> >>,
      << <<2, 1, 0>> >>, << <<8, 7>>, <<>>, <<0>> >>, << <<7, 6, 5, 4, 3>> >>,
      << <<0, 1, 2>>, <<0, 1, 2>> >>, << <<16, 15, 14, 13, 12, 11, 10, 9>> >> }

JsonOpcPixelRange(pixelCount, displayIndex) ==
    [pixelCount |-> pixelCount, displayIndex |-> displayIndex]

JsonRanges ==
    {JsonOpcPixelRange(n, d) : n \in 0..MaxRange, d \in DisplayIndexes}
    \cup { JsonOpcPixelRange(64, << <<16, 15, 14, 13, 12, 11, 10, 9>> >>),
           JsonOpcPixelRange(232, << <<0, 1>> >>),
           JsonOpcPixelRange(360, << <<0>>, <<0>> >>) }

\* A range parsed from the configuration, and .into() called on it.
Parsed(json) == [op |-> "json", json |-> json, range |-> <<>>]

Converted(json, range) == [op |-> "range", json |-> json, range |-> range]

RangeInit ==
    /\ parameters \in RaceSettings
    /\ machine \in RaceMachines
    /\ caller = CallerIdle
    /\ started = "no"
    /\ timer = TimerThread_new
    /\ timer_thread = [i \in 1..PipelineTimers |-> "none"]
    /\ worker_handle = FALSE
    /\ worker_lock = "free"
    /\ worker_thread = "none"
    /\ channel = <<>>
    /\ samples = ScreenSamples_new
    /\ serial_buffer = new_serial_buffer(parameters)
    /\ port = SerialPort_new
    /\ pool = OpcPool_new
    /\ tick = TickInit
    /\ call \in {Parsed(json) : json \in JsonRanges}
    /\ pixels = NoBuffer
    /\ window = NoWindow

\* let opc_pixel_range: OpcPixelRange = json.into()
RangeFrom ==
    /\ call.op = "json"
    /\ call' = Converted(call.json, OpcPixelRange(call.json))
    /\ UNCHANGED <<window, pixels, parameters, machine, caller, started, timer,
                   timer_thread, worker_handle, worker_lock, worker_thread,
                   channel, samples, serial_buffer, port, pool, tick>>

RangeNext == RangeFrom

RangeSpec == RangeInit /\ [][RangeNext]_vars

---------------------------------------------------------------------------
(* screen_samples.rs: render_channel.  A usize that has wrapped below zero *)
(* is written as the negative number it would be without the wrap: it      *)
(* stands for 2^64 plus that number, which is above every length.          *)

RECURSIVE BitLen(_)
BitLen(n) == IF n = 0 THEN 0 ELSE 1 + BitLen(n \div 2)

\* sample as f64 * weight, for a byte sample: the 53-bit mantissa of the
\* weight, in limbs of 20 bits, times the byte, rounded to 53 bits
F64Scale(sample, weight_) ==
    IF sample = 0 THEN F64_ZERO
    ELSE
      LET m0 == weight_[2] % Pow2(20)
          m1 == (weight_[1] % Pow2(13)) * Pow2(7) + (weight_[2] \div Pow2(20))
          m2 == weight_[1] \div Pow2(13)
          p0 == m0 * sample
          p1 == m1 * sample + (p0 \div Pow2(20))
          p2 == m2 * sample + (p1 \div Pow2(20))
          r0 == p0 % Pow2(20)
          r1 == p1 % Pow2(20)
          k  == BitLen(p2) - 13
      IN  IF k = 0
          THEN <<p2 * Pow2(13) + (r1 \div Pow2(7)),
                 (r1 % Pow2(7)) * Pow2(20) + r0, weight_[3]>>
          ELSE LET s  == k - 1
                   q0 == (r0 \div Pow2(s)) + (r1 % Pow2(s)) * Pow2(20 - s)
                   q1 == (r1 \div Pow2(s)) + (p2 % Pow2(s)) * Pow2(20 - s)
                   q2 == p2 \div Pow2(s)
               IN  RoundF64(q2 * Pow2(13) + (q1 \div Pow2(7)),
                            (q1 % Pow2(7)) * Pow2(20) + q0,
                            (r0 % Pow2(s)) # 0, 1, weight_[3] + s)

\* r as u32, for 0.0 <= r < 2^27: the integer part
F64AsU32(a) ==
    IF a = F64_ZERO THEN 0
    ELSE ShiftRight(a[1], a[2], FALSE, 0 - a[3])[2]

\* (r as u32).clamp(0, 255)
clamp(n) == IF n > 255 THEN 255 ELSE n

\* The loop that finds the display of a sample: display and pixel_offset as
\* the loop has them, previous_color_index the LEDs of the displays passed.
\* checked: the build checks arithmetic for overflow (debug), so that
\* `pixel_offset -= range.display_index.len()` panics below zero; unchecked
\* it wraps.  Indexing past a Vec panics in every build.  The result is the
\* colour sampled, or Panicked.
Panicked == <<>>

RECURSIVE FindSample(_, _, _, _, _, _)
FindSample(s, range, checked, display, pixel_offset, previous_color_index) ==
    IF \/ display >= Len(range.display_index)
       \/ /\ pixel_offset >= 0
          /\ pixel_offset < Len(range.display_index[display + 1])
    THEN IF display < Len(range.display_index)
         THEN LET index == previous_color_index
                           + range.display_index[display + 1][pixel_offset + 1]
              IN  IF index < Len(s.previous_colors)
                  THEN s.previous_colors[index + 1]
                  ELSE Panicked
         ELSE <<0, 0, 0, 0>>
    ELSE IF checked /\ pixel_offset >= 0
            /\ pixel_offset < Len(range.display_index)
         THEN Panicked
         ELSE IF display >= Len(s.pixel_offsets) THEN Panicked
              ELSE FindSample(s, range, checked, display + 1,
                              pixel_offset - Len(range.display_index),
                              previous_color_index + s.pixel_offsets[display + 1])

\* sampled_pixels of a range, or Panicked
sampled_pixels(s, range, checked) ==
    LET sampled == [i \in 1..range.pixel_count |->
                       FindSample(s, range, checked, 0,
                                  ((i - 1) * range.sample_count)
                                      \div range.pixel_count, 0)]
    IN  IF \E i \in 1..range.pixel_count : sampled[i] = Panicked
        THEN Panicked ELSE sampled

\* pixel_index >= kernel_radius && pixel_index + kernel_radius < pixel_count
Blurred(range, pixel_index) ==
    /\ pixel_index >= range.kernel_radius
    /\ pixel_index + range.kernel_radius < range.pixel_count

\* One channel of a blurred pixel: sample * weight added up over the kernel
\* from 0.0, in the order of the weights.
Blur(sampled, range, pixel_index, c) ==
    LET weights == range.kernel_weights
        terms   == [x \in 1..Len(weights) |->
                       F64Scale(sampled[x + pixel_index - range.kernel_radius][c],
                                weights[x])]
    IN  clamp(F64AsU32(F64Sum(F64_ZERO, terms, 1, Len(weights))))

\* The words render_channel adds for a range
blurred_pixels(sampled, range) ==
    [i \in 1..range.pixel_count |->
        IF Blurred(range, i - 1)
        THEN [c \in 1..4 |-> Blur(sampled, range, i - 1, c)]
        ELSE sampled[i]]

RECURSIVE AddWords(_, _)
AddWords(pb, words) ==
    IF words = <<>> THEN pb ELSE AddWords(add(pb, Head(words)), Tail(words))

\* render_channel on a channel of one range; sampled and words are what
\* the two loops computed for it.
render_channel(s, range, pb, checked) ==
    IF ~s.acquired_resources
    THEN [pixels |-> clear(pb), result |-> "false", sampled |-> <<>>,
          words |-> <<>>]
    ELSE LET sampled == sampled_pixels(s, range, checked) IN
         IF range.pixel_count > 0 /\ sampled = Panicked
         THEN [pixels |-> clear(pb), result |-> "panic", sampled |-> <<>>,
               words |-> <<>>]
         ELSE LET words == blurred_pixels(sampled, range) IN
              [pixels |-> AddWords(clear(pb), words), result |-> "true",
               sampled |-> sampled, words |-> words]

\* render_channel called directly on a channel of one range, as main.rs
\* does after take_samples: two displays of three LEDs each, every LED with
\* a colour of its own, and ranges whose displayIndex names LEDs that exist.
RenderSettings ==
    { [min_brightness |-> 64,
       fade           |-> NoFade,
       displays       |-> << [positions |-> 3], [positions |-> 3] >>,
       servers        |-> << >>] }

RenderColors ==
    << <<255, 0, 0, 255>>, <<0, 255, 0, 255>>, <<0, 0, 255, 255>>,
       <<100, 100, 100, 255>>, <<21, 21, 21, 255>>, <<10, 200, 54, 255>> >>

\* ScreenSamples after create_resources and take_samples on the displays.
RenderSamples ==
    [factory            |-> TRUE,
     displays           |-> [d \in 1..2 |-> [staging        |-> FALSE,
                                             acquired_frame |-> FALSE,
                                             texture        |-> Uninit]],
     pixel_offsets      |-> <<3, 3>>,
     previous_colors    |-> RenderColors,
     acquired_resources |-> TRUE]

RenderIndexes ==
    { <<>>, << <<>> >>, << <<0>> >>, << <<0, 1>> >>, << <<2, 1, 0>> >>,
      << <<0>>, <<0>> >>, << <<>>, <<2>> >>, << <<1>>, <<>> >>,
      << <<0, 1>>, <<1, 0>> >>, << <<0, 1, 2>>, <<1>> >>,
      << <<0, 1, 2>>, <<0, 1, 2>> >> }

RenderRanges ==
    {JsonOpcPixelRange(n, d) : n \in 0..MaxPixels, d \in RenderIndexes}

Rendered(json, range, checked, rendered) ==
    [op |-> "render", json |-> json, range |-> range, checked |-> checked,
     result |-> rendered.result, sampled |-> rendered.sampled,
     words |-> rendered.words]

RenderInit ==
    /\ parameters \in RenderSettings
    /\ machine \in RaceMachines
    /\ caller = CallerIdle
    /\ started = "no"
    /\ timer = TimerThread_new
    /\ timer_thread = [i \in 1..PipelineTimers |-> "none"]
    /\ worker_handle = FALSE
    /\ worker_lock = "free"
    /\ worker_thread = "none"
    /\ channel = <<>>
    /\ samples \in {RenderSamples, ScreenSamples_new}
    /\ serial_buffer = new_serial_buffer(parameters)
    /\ port = SerialPort_new
    /\ pool = OpcPool_new
    /\ tick = TickInit
    /\ call \in {Parsed(json) : json \in RenderRanges}
    /\ pixels = NoBuffer
    /\ window = NoWindow

\* samples.render_channel(opc_channel, &mut buffer) on a buffer allocated
\* for the channel, by a build that checks for overflow or by one that
\* does not.
RenderChannel ==
    /\ call.op = "range"
    /\ \E checked \in BOOLEAN :
       \E alpha \in BOOLEAN :
          LET opc_channel == OpcChannel(2, <<call.range.pixel_count>>)
              buffer      == IF alpha THEN new_bob_buffer(opc_channel)
                             ELSE new_opc_buffer(opc_channel)
              rendered    == render_channel(samples, call.range, buffer, checked)
          IN /\ pixels' = rendered.pixels
             /\ call' = Rendered(call.json, call.range, checked, rendered)
    /\ UNCHANGED <<window, parameters, machine, caller, started, timer,
                   timer_thread, worker_handle, worker_lock, worker_thread,
                   channel, samples, serial_buffer, port, pool, tick>>

RenderNext == RangeFrom \/ RenderChannel

RenderSpec == RenderInit /\ [][RenderNext]_vars

----------------------------------------------------------------------------
(* hidden_window.rs: the hidden window that listens for session changes    *)
(* and calls UpdateTimer from its window procedure.                        *)

\* The messages the window procedure is sent: WM_DESTROY, WM_DISPLAYCHANGE,
\* and WM_WTSSESSION_CHANGE with its wParam.
Messages ==
    {"WM_DESTROY", "WM_DISPLAYCHANGE", "WTS_CONSOLE_CONNECT",
     "WTS_CONSOLE_DISCONNECT", "WTS_REMOTE_CONNECT", "WTS_REMOTE_DISCONNECT",
     "WTS_SESSION_LOCK", "WTS_SESSION_UNLOCK"}

\* attach_to_console: the calls of UpdateTimer it makes, in order
attach_to_console(connected_to_console) ==
    IF connected_to_console THEN <<"resume", "start">> ELSE <<>>

\* detach_from_console: the calls of UpdateTimer it makes
detach_from_console(connected_to_console) ==
    IF connected_to_console THEN <<"stop">> ELSE <<>>

\* window_proc: connected_to_console after the message, and the calls of
\* UpdateTimer made while handling it, in order
window_proc(connected_to_console, message) ==
    CASE message = "WM_DESTROY" ->
           [connected_to_console |-> connected_to_console,
            calls |-> detach_from_console(connected_to_console)]
      [] message = "WTS_CONSOLE_CONNECT" ->
           [connected_to_console |-> TRUE,
            calls |-> attach_to_console(TRUE)]
      [] message = "WTS_CONSOLE_DISCONNECT" ->
           [connected_to_console |-> FALSE,
            calls |-> detach_from_console(connected_to_console)]
      [] message = "WTS_SESSION_LOCK" ->
           [connected_to_console |-> connected_to_console,
            calls |-> detach_from_console(connected_to_console)]
      [] message = "WTS_SESSION_UNLOCK" ->
           [connected_to_console |-> connected_to_console,
            calls |-> attach_to_console(connected_to_console)]
      [] message = "WM_DISPLAYCHANGE" ->
           [connected_to_console |-> connected_to_console,
            calls |-> detach_from_console(connected_to_console)
                      \o attach_to_console(connected_to_console)]
      [] OTHER ->
           [connected_to_console |-> connected_to_console, calls |-> <<>>]

\* HiddenWindow::new: WindowState::new reads SM_REMOTESESSION, and
\* attach_to_console is called once the state is set.
HiddenWindow_new(remote_session) ==
    [connected_to_console |-> ~remote_session,
     message |-> "new",
     calls   |-> attach_to_console(~remote_session),
     made    |-> <<>>,
     running |-> FALSE,
     count   |-> 0]

WindowInit ==
    /\ parameters \in RaceSettings
    /\ machine \in RaceMachines
    /\ caller = CallerIdle
    /\ started = "no"
    /\ timer = TimerThread_new
    /\ timer_thread = [i \in 1..PipelineTimers |-> "none"]
    /\ worker_handle = FALSE
    /\ worker_lock = "free"
    /\ worker_thread = "none"
    /\ channel = <<>>
    /\ samples = ScreenSamples_new
    /\ serial_buffer = new_serial_buffer(parameters)
    /\ port = SerialPort_new
    /\ pool = OpcPool_new
    /\ tick = TickInit
    /\ call = CallNone
    /\ pixels = NoBuffer
    /\ window \in {HiddenWindow_new(remote_session) : remote_session \in BOOLEAN}

\* The window procedure is sent a message once it has returned from the
\* message before; nothing is sent after WM_DESTROY.
WindowMessage ==
    /\ window.calls = <<>>
    /\ caller.pc = "idle"
    /\ window.message # "WM_DESTROY"
    /\ window.count < MaxMessages
    /\ \E message \in Messages :
         LET handled == window_proc(window.connected_to_console, message) IN
         window' = [connected_to_console |-> handled.connected_to_console,
                    message |-> message,
                    calls   |-> handled.calls,
                    made    |-> <<>>,
                    running |-> started = "yes",
                    count   |-> window.count + 1]
    /\ UNCHANGED <<pixels, parameters, machine, caller, started, timer,
                   timer_thread, worker_handle, worker_lock, worker_thread,
                   channel, samples, serial_buffer, port, pool, tick, call>>

\* The call the window procedure has reached is made.
Makes(name) ==
    /\ window.calls # <<>>
    /\ Head(window.calls) = name
    /\ window' = [window EXCEPT !.calls = Tail(@), !.made = Append(@, name)]

WindowStart == Makes("start") /\ UpdateTimer_start

WindowStop == Makes("stop") /\ UpdateTimer_stop

WindowResume == Makes("resume") /\ UpdateTimer_resume

WindowNext == WindowMessage \/ WindowStart \/ WindowStop \/ WindowResume
              \/ StartWorker \/ StartTimer \/ StopJoin

WindowSpecNext == WindowNext \/ TimerNext \/ WorkerNext

WindowSpec == WindowInit /\ [][WindowSpecNext]_vars
---------------------------------------------------------------------------
(* Properties.                                                             *)

\* The entries of a step's log that record the call named.
Logs(t, name) == {e \in Range(t.log) : e[1] = name}

\* The (server, channel) pairs the configuration names.
ConfiguredChannels(p) ==
    UNION {{<<i, c>> : c \in 1..p.servers[i].channels} : i \in 1..Len(p.servers)}

\* The step of the Worker that runs the head of the Fired arm, and the one
\* that runs take_samples.
HandlesFired == worker_thread = "fired" /\ worker_thread' # "fired"

TakesSamples == worker_thread = "take" /\ worker_thread' # "take"

\* The previous_colors entries of display d.
LedsOf(p, d) == {LedIndex(p, d, j) : j \in 1..p.displays[d].positions}

\* C1: once stop() was called on a started pipeline (it took the Timer's
\* handle to join), the call does not end in a panic, the Worker is not lost
\* to a panic (it is to handle Stopped and exit), and when stop() has
\* returned no Timer thread is alive and the Worker has exited.
C1_StopJoinsBoth ==
    (caller.op = "stop" /\ caller.join # 0) =>
        /\ caller.pc # "panicked"
        /\ worker_thread # "panicked"
        /\ caller.pc = "idle" => TimersAlive = {} /\ worker_thread = "exited"

\* C2: a stop() called after a start() that returned true returns true (the
\* join does not change the result); a stop() called after a stop(), with no
\* start() in between, returns false at once, joins nothing and leaves the
\* timer as it was, stopped.
C2_StopIdempotent ==
    [][/\ CallStop =>
            /\ started = "yes" => caller'.result
            /\ started = "stopped" =>
                  /\ ~caller'.result
                  /\ caller'.pc = "idle" /\ caller'.join = 0
                  /\ timer.stopped /\ timer' = timer
       /\ StopJoin => caller'.result = caller.result]_vars

\* C2, reached: a second stop() has returned false after the first one joined
\* the threads of a started pipeline.
C2_Witness ==
    /\ caller.op = "stop" /\ caller.pc = "idle" /\ ~caller.result
    /\ started = "stopped" /\ timer.stopped
    /\ worker_thread = "exited"

\* C3: resume() leaves throttled false and returns whether throttled was true
\* and the timer not stopped; throttle() leaves throttled true and returns
\* whether throttled was false and the timer not stopped; neither changes
\* another field, and the same call made again at once returns false and
\* changes nothing.
C3_ThrottleResume ==
    [][/\ CallResume =>
            /\ ~timer'.throttled
            /\ caller'.result = (timer.throttled /\ ~timer.stopped)
            /\ timer' = [timer EXCEPT !.throttled = FALSE]
            /\ TimerThread_resume(timer') = [timer |-> timer', result |-> FALSE]
       /\ HandlesFired =>
            /\ \A e \in Logs(tick', "resume") :
                  /\ ~timer'.throttled
                  /\ e[2] = Bit(timer.throttled /\ ~timer.stopped)
                  /\ timer' = [timer EXCEPT !.throttled = FALSE]
                  /\ TimerThread_resume(timer') = [timer |-> timer', result |-> FALSE]
            /\ \A e \in Logs(tick', "throttle") :
                  /\ timer'.throttled
                  /\ e[2] = Bit(~timer.throttled /\ ~timer.stopped)
                  /\ timer' = [timer EXCEPT !.throttled = TRUE]
                  /\ TimerThread_throttle(timer') = [timer |-> timer', result |-> FALSE]]_vars

\* C3, reached: the Worker's throttle() returned true and the caller's
\* resume() after it returned true.
C3_Witness ==
    /\ <<"throttle", 1, 0>> \in Range(tick.log)
    /\ caller.op = "resume" /\ caller.result
    /\ ~timer.throttled

\* C4: at most one Timer thread is alive, and while the pipeline is started
\* exactly one Timer thread and the Worker thread are alive.
C4_OneTimerOneWorker ==
    /\ Cardinality(TimersAlive) <= 1
    /\ started = "yes" => Cardinality(TimersAlive) = 1 /\ WorkerAlive

\* The log of a step that made every send of a tick, in the order stated.
CompleteSends(p, L) ==
    /\ Len(L) = 1 + Cardinality(ConfiguredChannels(p))
    /\ L[1] = Call("serial")
    /\ \A k \in 2..Len(L) : L[k][1] = "opc"
    /\ {<<L[k][2], L[k][3]>> : k \in 2..Len(L)} = ConfiguredChannels(p)
    /\ \A a, b \in 2..Len(L) :
          a < b => \/ L[a][2] < L[b][2]
                   \/ L[a][2] = L[b][2] /\ L[a][3] < L[b][3]

\* C5: the sends of a Fired tick are the serial send and then one OPC send
\* for each configured channel, servers in ascending order and the channels
\* of a server in ascending order; and the Worker receives the next event
\* only when the sends of the Fired tick before it have all been made.
C5_SendOrder ==
    [][/\ (worker_thread = "send" /\ worker_thread' = "recv") => CompleteSends(parameters, tick'.log)
       /\ (worker_thread = "recv" /\ worker_thread' # "recv" /\ tick.event = "fired") => CompleteSends(parameters, tick.log)]_vars

\* C5, reached: a Fired tick has made its sends to connected outputs while
\* the next event was waiting in the channel.
C5_Witness ==
    /\ worker_thread = "recv" /\ tick.event = "fired" /\ Len(tick.log) = 4
    /\ channel # <<>>
    /\ Connected(port, pool) = {0, 1, 2}

\* Nothing is held: no capture resources, no serial handle, no OPC stream.
Released(s, sp, op) ==
    /\ ~s.acquired_resources /\ s.displays = <<>>
    /\ ~sp.port_handle
    /\ \A i \in 1..Len(op.connections) : ~op.connections[i]

\* C6: handling Stopped, the Worker clears the serial buffer and sends it
\* (one frame, with an all-zero payload, when the port is open; no frame
\* otherwise), then frees the capture resources and closes the port and the
\* pool; after that, and after the thread has ended, ScreenSamples holds no
\* resources, no serial handle is held and no OPC stream is open.
C6_StoppedTeardown ==
    [][/\ (worker_thread = "stopped" /\ worker_thread' # "stopped") =>
            /\ tick'.log = <<Call("clear"), Call("serial"), Call("free"),
                             Call("close_port"), Call("close_pool")>>
            /\ IF port.port_handle
               THEN /\ Len(tick'.frames) = 1
                    /\ Len(tick'.frames[1]) = 6 + 3 * get_total_led_count(parameters)
                    /\ SubSeq(tick'.frames[1], 1, 3) = <<65, 100, 97>>
                    /\ \A k \in 7..Len(tick'.frames[1]) : tick'.frames[1][k] = 0
               ELSE tick'.frames = <<>>
            /\ Released(samples', port', pool')
            /\ worker_thread' = "ending"
       /\ (worker_thread = "ending" /\ worker_thread' # "ending") =>
            Released(samples', port', pool') /\ worker_thread' = "exited"]_vars

\* C6, reached: the Worker has handled Stopped with the port open and
\* capture resources held, after a tick that sampled the desktop.
C6_Witness ==
    /\ worker_thread = "ending" /\ tick.event = "stopped"
    /\ Len(tick.frames) = 1
    /\ samples.previous_colors # <<>>
    /\ Released(samples, port, pool)

\* C7 as stated: a Fired tick handled after a write failure closed an output
\* calls open(), whether capture resources are held or not.
C7_ReopenInEveryState ==
    [][(HandlesFired /\ tick.lost) => Logs(tick', "open") # {}]_vars

\* C7: a Fired tick handled after a write failure closed an output calls
\* port.open() and pool.open() first when ScreenSamples holds no resources;
\* when resources are held it calls neither and leaves the port and the pool
\* as they are.
C7_ReopenWhenEmpty ==
    [][(HandlesFired /\ tick.lost) =>
          IF ~samples.acquired_resources
          THEN /\ tick'.log # <<>> /\ tick'.log[1][1] = "open"
               /\ ~tick'.lost
          ELSE /\ tick'.log = <<>>
               /\ port' = port /\ pool' = pool
               /\ tick'.lost]_vars

\* C7, reached: a Fired tick has gone past the check with resources held and
\* an output closed by a write failure, opening nothing.
C7_Witness ==
    /\ worker_thread = "take" /\ tick.event = "fired"
    /\ tick.lost /\ tick.log = <<>>
    /\ samples.acquired_resources
    /\ Connected(port, pool) # {0, 1, 2}

\* C8: a Fired tick that finds no output connected, and connects none,
\* leaves the timer throttled.
C8_ThrottleWithoutListeners ==
    [][(HandlesFired /\ worker_thread' = "take" /\ Connected(port', pool') = {})
          => timer'.throttled]_vars

Holds(kind) == pixels # NoBuffer /\ call.kind = kind

\* Bit b of the byte x.
ByteBit(x, b) == (x \div (2 ^ b)) % 2

\* C16: the serial buffer for a total LED count n in 1..65536 has length
\* 6 + 3n and starts with 'A', 'd', 'a', H, L, H xor L xor 0x55, where H and
\* L are the high and low byte of n - 1; for n = 24 these are 00, 17, 42 and
\* the length is 78.
C16_SerialHeader ==
    Holds("serial") =>
       LET n == get_total_led_count(parameters)
           b == data(pixels)
       IN /\ Len(b) = 6 + 3 * n
          /\ SubSeq(b, 1, 3) = <<65, 100, 97>>
          /\ b[4] \in 0..255 /\ b[5] \in 0..255
          /\ 256 * b[4] + b[5] = n - 1
          /\ b[6] \in 0..255
          /\ \A k \in 0..7 :
                ByteBit(b[6], k) =
                   (ByteBit(b[4], k) + ByteBit(b[5], k) + ByteBit(85, k)) % 2
          /\ n = 24 => SubSeq(b, 4, 6) = <<0, 23, 66>> /\ Len(b) = 78

\* C16, reached: the serial buffer for 24 LEDs.
C16_Witness ==
    /\ Holds("serial") /\ call.op = "new"
    /\ get_total_led_count(parameters) = 24
    /\ SubSeq(data(pixels), 4, 6) = <<0, 23, 66>>
    /\ Len(data(pixels)) = 78

\* The total of the pixel_count of the ranges of a channel.
RangePixels(opc_channel) ==
    SumSeq([i \in 1..Len(opc_channel.pixels) |-> opc_channel.pixels[i].pixel_count])

\* C17: for channel c with n pixels in its ranges, the opc buffer is
\* c, 0x00, H, L and 3n payload bytes, and the bob buffer is c, 0xFF, H, L,
\* 0x0B, 0x0B and 4n payload bytes, H and L the high and low byte of 3n;
\* c = 2 and n = 116 give 01, 5C and the lengths 352 and 470.
C17_OpcBobLayout ==
    /\ Holds("opc") =>
          LET n == RangePixels(call.channel)
              b == data(pixels)
          IN /\ Len(b) = 4 + 3 * n
             /\ SubSeq(b, 1, 4) = <<call.channel.channel, 0, (3 * n) \div 256,
                                    (3 * n) % 256>>
             /\ pixels.offset = SubSeq(b, 1, 4)
             /\ (call.channel.channel = 2 /\ n = 116) =>
                   SubSeq(b, 3, 4) = <<1, 92>> /\ Len(b) = 352
    /\ Holds("bob") =>
          LET n == RangePixels(call.channel)
              b == data(pixels)
          IN /\ Len(b) = 6 + 4 * n
             /\ SubSeq(b, 1, 6) = <<call.channel.channel, 255, (3 * n) \div 256,
                                    (3 * n) % 256, 11, 11>>
             /\ pixels.offset = SubSeq(b, 1, 6)
             /\ (call.channel.channel = 2 /\ n = 116) =>
                   SubSeq(b, 3, 4) = <<1, 92>> /\ Len(b) = 470

\* C17, reached: the bob buffer of channel 2 with its 116 pixels.
C17_Witness ==
    /\ Holds("bob") /\ call.channel.channel = 2
    /\ RangePixels(call.channel) = 116
    /\ SubSeq(data(pixels), 1, 6) = <<2, 255, 1, 92, 11, 11>>
    /\ Len(data(pixels)) = 470

\* C18: in an opc and in a bob buffer whose payload is shorter than 65536
\* bytes, the big-endian length in header bytes 2-3 is the number of bytes
\* that follow the header.
C18_LengthIsPayload ==
    (Holds("opc") \/ Holds("bob")) =>
       LET b       == data(pixels)
           payload == Len(b) - Len(pixels.offset)
       IN payload < 65536 => 256 * b[3] + b[4] = payload

\* Byte r (0: most significant) of the u32 word x.
WordByte(x, r) == (x \div (256 ^ (3 - r))) % 256

\* C19: data() is the header the buffer was allocated with, then the words
\* added since it was allocated or cleared, each as R, G, B (and A in a
\* buffer with alpha) most significant byte first, in call order, then zero
\* bytes; its length is the one the buffer was allocated with.
C19_AddClearData ==
    pixels # NoBuffer =>
       LET b == data(pixels)
           h == Len(call.header)
           w == IF call.kind = "bob" THEN 4 ELSE 3
       IN /\ Len(b) = call.size
          /\ SubSeq(b, 1, h) = call.header
          /\ pixels.offset = call.header
          /\ \A i \in (h + 1)..Len(b) :
                b[i] = IF i <= h + w * Len(call.added)
                       THEN WordByte(call.added[((i - h - 1) \div w) + 1],
                                     (i - h - 1) % w)
                       ELSE 0

\* C19, reached: two different words added to a bob buffer after a clear
\* that followed earlier adds.
C19_Witness ==
    /\ Holds("bob") /\ call.cleared /\ call.op = "add"
    /\ call.added = <<16909060, 2139160321>>
    /\ Len(data(pixels)) > 6 + 8

\* The positions of all the displays configured, counted display by display.
ConfiguredLeds(p) == SumSeq([d \in 1..Len(p.displays) |-> p.displays[d].positions])

\* C20: while ScreenSamples holds resources, previous_colors has one entry
\* for each configured LED and every entry has alpha 0xFF; a
\* create_resources that acquires the resources leaves every entry at
\* min_brightness / 3 (integer division) in R, G and B, and one called with
\* the resources held changes nothing.
C20_PreviousColorsShape ==
    [][/\ samples'.acquired_resources =>
            /\ Len(samples'.previous_colors) = ConfiguredLeds(parameters)
            /\ \A k \in 1..Len(samples'.previous_colors) :
                  /\ Len(samples'.previous_colors[k]) = 4
                  /\ samples'.previous_colors[k][4] = 255
       /\ (~samples.acquired_resources /\ samples'.acquired_resources) =>
            /\ call'.op = "create" /\ call'.result = "ok"
            /\ \A k \in 1..Len(samples'.previous_colors) :
                  samples'.previous_colors[k] =
                     <<parameters.min_brightness \div 3,
                       parameters.min_brightness \div 3,
                       parameters.min_brightness \div 3, 255>>
       /\ (samples.acquired_resources /\ call'.op = "create") =>
            samples' = samples /\ call'.result = "ok"]_vars

\* C20, reached: resources held after two take_samples that changed the
\* entries of both displays.
C20_Witness ==
    /\ samples.acquired_resources
    /\ call.op = "take" /\ call.n = 2 /\ call.result = "ok"
    /\ Len(samples.previous_colors) = 2
    /\ \A k \in 1..2 : samples.previous_colors[k] # <<21, 21, 21, 255>>

\* Server s of the pool has a stream.
Stream(op, s) == s <= Len(op.connections) /\ op.connections[s]

\* C15 as stated: after an open() in which the connect to server s failed,
\* server s has no stream.
C15_ConnectFailureDrops ==
    [][call'.op = "open" =>
          \A s \in 1..Len(parameters.servers) :
             ~call'.connect[s] => ~Stream(pool', s)]_vars

\* C15: open() gives server s a stream when its connect succeeds and leaves
\* s as it was, with the stream it had or with none, when the connect
\* fails, and returns true iff a connect succeeded; send(s, .) writes iff s
\* has a stream and returns true iff it wrote all; a write error drops the
\* stream of s; and neither call changes whether another server has a
\* stream except by that server's own connect.
C15_ServerIsolation ==
    [][/\ call'.op = "open" =>
            /\ \A s \in 1..Len(parameters.servers) :
                  Stream(pool', s) = (call'.connect[s] \/ Stream(pool, s))
            /\ call'.result = (\E s \in 1..Len(parameters.servers) : call'.connect[s])
       /\ call'.op = "send" =>
            /\ call'.written = Stream(pool, call'.server)
            /\ call'.result = (Stream(pool, call'.server) /\ call'.write_ok)
            /\ Stream(pool', call'.server) = call'.result
            /\ \A t \in 1..Len(parameters.servers) :
                  t # call'.server => Stream(pool', t) = Stream(pool, t)]_vars

\* C15, reached: an open() in which the connect to server 1 failed and the
\* one to server 2 succeeded has returned true, and server 1 has the stream
\* it had before.
C15_Witness ==
    /\ call.op = "open" /\ ~call.connect[1] /\ call.connect[2] /\ call.result
    /\ Stream(pool, 1) /\ Stream(pool, 2)

---------------------------------------------------------------------------
(* The serial link called directly (SerialSpec).                           *)

\* The ports whose probe read completes with the cookie.
CookiePorts == {n \in 1..ProbePorts : machine.ports[n] = "cookie"}

\* An open() that ran the probe has returned.
Probed == call.op = "open" /\ call.pc = "done" /\ call.probing

\* C11: when open() has probed and the read on one of the ports it probed
\* completes with the cookie, the port number it remembers is that of a
\* port that sends the cookie, and it returned true if that port could be
\* opened for writing.
C11_CookiePortFound ==
    (Probed /\ call.probed \cap CookiePorts # {}) =>
        /\ port.port_number \in CookiePorts
        /\ call.reopen => call.result

\* C12: the port number remembered is always that of a port whose probe
\* read completes with exactly the 4 bytes of the cookie.
C12_OnlyCookiePortWins ==
    port.port_number # 0 => port.port_number \in CookiePorts

\* C13: a port number that has been learned never changes, whatever is
\* called; an open() that finds it skips the probe; and open() returns true
\* iff the handle is held when it returns, which without a handle held
\* before is iff the port of that number could be opened for writing.
C13_LearnedPortKept ==
    [][/\ port.port_number # 0 => port'.port_number = port.port_number
       /\ (call.pc = "done" /\ call'.op = "open" /\ call'.pc # "done"
             /\ port.port_number # 0) =>
            /\ call'.pc = "reopen" /\ ~call'.probing
            /\ call'.probed = {} /\ call'.pending_ports = <<>>
       /\ (call.pc = "reopen" /\ call'.pc = "done") =>
            /\ call'.result = port'.port_handle
            /\ (~call.held /\ port.port_number # 0) =>
                  port'.port_handle = call'.reopen]_vars

\* C13, reached: with the port number learned and the handle closed, an
\* open() that did not probe has opened the port and returned true.
C13_Witness ==
    /\ call.op = "open" /\ call.pc = "done"
    /\ ~call.probing /\ ~call.held /\ call.reopen /\ call.result
    /\ port.port_number # 0 /\ port.port_handle

\* C14: send() without a handle returns false and writes nothing; with a
\* handle it writes the buffer, and returns true and keeps the handle iff
\* WriteFile succeeded and wrote all of it, else closes the handle and
\* returns false; and only an open() that returns true gets a handle back.
C14_SendClosesOnFailure ==
    [][/\ call'.op = "send" =>
            /\ ~port.port_handle =>
                 ~call'.result /\ call'.written = <<>> /\ port' = port
            /\ port.port_handle =>
                 /\ call'.written = data(serial_buffer)
                 /\ call'.result = (call'.ok /\ call'.cb_written = Len(data(serial_buffer)))
                 /\ port'.port_handle = call'.result
                 /\ port'.port_number = port.port_number
       /\ (~port.port_handle /\ port'.port_handle) =>
            call'.op = "open" /\ call'.pc = "done" /\ call'.result]_vars

\* C14, reached: WriteFile succeeded but wrote one byte less than the
\* buffer holds, and send() has closed the handle and returned false.
C14_Witness ==
    /\ call.op = "send" /\ call.held /\ call.ok
    /\ call.cb_written = Len(data(serial_buffer)) - 1
    /\ call.written = data(serial_buffer)
    /\ ~call.result /\ ~port.port_handle /\ port.port_number # 0


---------------------------------------------------------------------------
(* The colours take_samples stores (LiftSpec: one display of two LEDs, no  *)
(* fading, a desktop that shows the one image of machine.frames).          *)

\* The image the desktop shows.
Shown == CHOOSE f \in machine.frames : TRUE

\* take_samples has returned Ok after mapping the surface for every LED.
Sampled == call.op = "take" /\ call.result = "ok" /\ call.maps_ok

\* C21: after a successful take_samples of a black desktop every LED's
\* stored R, G and B equals min_brightness / 3.
C21_BlackIsMinBrightness ==
    (Sampled /\ machine.frames = {Black}) =>
        \A k \in DOMAIN samples.previous_colors :
           \A c \in 1..3 :
              samples.previous_colors[k][c] = parameters.min_brightness \div 3

\* The colour stored for block sums (256 times the averages), as C22 has it.
Lifted(sums, min_brightness) ==
    LET S == sums[1] + sums[2] + sums[3]
        B == OFFSET_ARRAY_SIZE * min_brightness
    IN [c \in 1..4 |->
          IF c = 4 THEN 255
          ELSE IF S >= B THEN sums[c] \div OFFSET_ARRAY_SIZE
          ELSE ((B - S) * (S - sums[c])) \div (2 * S * OFFSET_ARRAY_SIZE)]

OtherColors(n) ==
    { [k \in 1..n |-> <<0, 0, 0, 255>>],
      [k \in 1..n |-> <<40 * k, 7, 200 + k, 255>>] }

\* take_samples on the state reached, and on the same state with other
\* contents in previous_colors, under the same outcomes env.
Twin(other, env) ==
    [one |-> take_samples(samples, parameters, env),
     two |-> take_samples([samples EXCEPT !.previous_colors = other],
                          parameters, env)]

C24_RenderSerialCompletes ==
    samples.acquired_resources =>
        /\ \A k \in DOMAIN samples.previous_colors :
              \A c \in 1..3 : InTable(samples.previous_colors[k][c])
        /\ render_serial(samples, serial_buffer).result = "true"

---------------------------------------------------------------------------
(* strip_comments (StripSpec).                                             *)

\* The text without its comments, by the rules of JSON with comments: a
\* string runs from a double quote to the next double quote that no
\* backslash escapes, a line comment from // outside a string to the end
\* of the line, a block comment from /* outside a string to the next */.
\* mode is "text", "string" or "block"; the result is <<>> when a string
\* is not closed on its line.
RECURSIVE Uncommented(_, _, _, _, _)
Uncommented(lines, k, i, mode, out) ==
    IF k > Len(lines) THEN [lines |-> out, open |-> mode = "string"]
    ELSE LET line == lines[k] IN
    IF i > Len(line)
    THEN IF mode = "string" THEN [lines |-> out, open |-> TRUE]
         ELSE Uncommented(lines, k + 1, 1, mode, Append(out, <<>>))
    ELSE LET c    == line[i]
             next == IF i < Len(line) THEN line[i + 1] ELSE "end"
             keep(n) == [out EXCEPT ![Len(out)] = @ \o SubSeq(line, i, i + n - 1)]
         IN
         IF mode = "text"
         THEN IF c = "q" THEN Uncommented(lines, k, i + 1, "string", keep(1))
              ELSE IF c = "s" /\ next = "s"
                   THEN Uncommented(lines, k + 1, 1, "text", Append(out, <<>>))
              ELSE IF c = "s" /\ next = "x"
                   THEN Uncommented(lines, k, i + 2, "block", out)
              ELSE Uncommented(lines, k, i + 1, "text", keep(1))
         ELSE IF mode = "string"
         THEN IF c = "b" /\ next # "end"
              THEN Uncommented(lines, k, i + 2, "string", keep(2))
              ELSE IF c = "q" THEN Uncommented(lines, k, i + 1, "text", keep(1))
              ELSE Uncommented(lines, k, i + 1, "string", keep(1))
         ELSE IF c = "x" /\ next = "s"
              THEN Uncommented(lines, k, i + 2, "text", out)
              ELSE Uncommented(lines, k, i + 1, "block", out)

\* The lines of a text that are not blank.
NotBlank(lines) == SelectSeq(lines, LAMBDA l : ~empty_line(l))

\* C25: for a text whose strings are closed on their line, the output of
\* strip_comments is the text without its comments, every string in it
\* character for character (blank lines left out).
C25_StringsVerbatim ==
    call.op = "strip" =>
        LET expected == Uncommented(call.json, 1, 1, "text", << <<>> >>) IN
        ~expected.open =>
            call.output = NotBlank(SubSeq(expected.lines, 1, Len(call.json)))

----------------------------------------------------------------------------
(* The blur kernel of a pixel range.                                        *)

\* How far an f64 is from 1.0, in halves of f64::EPSILON (2^-53); Far when
\* it is further than one limb from 1.0.
Far == Pow2(20)

HalfEpsilons(sum) ==
    IF sum[3] = -52
    THEN IF sum[1] = Pow2(25) /\ sum[2] < Far THEN 2 * sum[2] ELSE Far
    ELSE IF sum[3] = -53
         THEN IF sum[1] = Pow2(26) - 1 /\ LIMB - sum[2] < Far
              THEN LIMB - sum[2] ELSE Far
         ELSE Far

\* The structure C26 states of a converted range, with the sum of its
\* weights within `halves` halves of epsilon from 1.
KernelOf(json, range, halves) ==
    LET count == sample_count(json.displayIndex)
        r     == range.kernel_radius
        w     == range.kernel_weights
    IN  /\ range.sample_count = count
        /\ range.pixel_count = json.pixelCount
        /\ IF count > 1 /\ json.pixelCount >= 3 * count
           THEN /\ r = json.pixelCount \div (2 * count)
                /\ r >= 1
                /\ Len(w) = 2 * r + 1
                /\ \A i \in 1..Len(w) : w[i] = w[Len(w) + 1 - i]
                /\ HalfEpsilons(reduce(w)) <= halves
           ELSE r = 0 /\ w = <<>>

\* C26 as stated: every converted OpcPixelRange has sample_count the sum of
\* its display_index lengths, and, when sample_count > 1 and pixel_count >=
\* 3 * sample_count, kernel_radius = pixel_count / (2 * sample_count) >= 1
\* and 2 * kernel_radius + 1 symmetric weights summing to 1 within
\* 2 epsilon; otherwise kernel_radius 0 and no weights.
C26_KernelSumsWithinTwoEpsilon ==
    call.op = "range" => KernelOf(call.json, call.range, 4)

\* C26: the structure as stated, with the weights summing to 1 within
\* 2 epsilon for a kernel_radius up to 7 and within
\* (2 * kernel_radius + 1) epsilon for any kernel_radius.
C26_KernelSumsWithinLengthEpsilon ==
    call.op = "range" =>
        KernelOf(call.json, call.range,
                 IF call.range.kernel_radius <= 7 THEN 4
                 ELSE 2 * (2 * call.range.kernel_radius + 1))

\* C26, reached: a converted range whose kernel of radius 58 sums further than 2 epsilon
\* from 1, and within 117 epsilon.
C26_Witness ==
    /\ call.op = "range"
    /\ call.range.kernel_radius = 58
    /\ Len(call.range.kernel_weights) = 117
    /\ HalfEpsilons(reduce(call.range.kernel_weights)) = 5

----------------------------------------------------------------------------
(* The session observer.                                                    *)

\* The window procedure has returned from a message.
Handled ==
    /\ window.message \notin {"none", "new"}
    /\ window.calls = <<>>
    /\ caller.pc = "idle"

Made(name) == \E k \in DOMAIN window.made : window.made[k] = name

\* C27: once the window procedure has handled a session lock or a console
\* disconnect that arrived with the pipeline started, the call it made is
\* throttle(), and the pipeline is still started, its Timer not told to
\* stop; once it has handled an unlock, a console connect or a display
\* change while connected to the console, it has made the call resume().
C27_ObserverThrottles ==
    Handled =>
      /\ (/\ window.message \in {"WTS_SESSION_LOCK", "WTS_CONSOLE_DISCONNECT"}
          /\ window.running)
         => /\ window.made = <<"throttle">>
            /\ ~timer.stopped
            /\ started = "yes"
      /\ (/\ window.message \in {"WTS_SESSION_UNLOCK", "WTS_CONSOLE_CONNECT",
                                 "WM_DISPLAYCHANGE"}
          /\ window.connected_to_console)
         => Made("resume")

----------------------------------------------------------------------------
(* Attached displays and configured displays.                               *)

\* C28: create_resources and take_samples never index a display or a
\* configuration entry that does not exist (no call ends in a panic),
\* whatever the number of displays that can be duplicated, and a
\* create_resources that returns an error leaves ScreenSamples without
\* resources.
C28_NoMissingDisplay ==
    /\ call.op \in {"create", "take"} => call.result # "panic"
    /\ (call.op = "create" /\ call.result = "err") => is_empty(samples)

----------------------------------------------------------------------------
(* The events of a run.                                                     *)

\* C29: the events of a run are Fired zero or more times and then one
\* Stopped with nothing after it, consumed in that order: in the channel a
\* Stopped is never followed by another event, and a Worker that has handled
\* Stopped and is tearing down, or has exited, has left no event of the run
\* unhandled.
C29_FiredThenOneStopped ==
    /\ \A k \in 1..(Len(channel) - 1) : channel[k] # "Stopped"
    /\ worker_thread \in {"ending", "exited"} => channel = <<>>

----------------------------------------------------------------------------
(* The head of the Fired arm.                                               *)

\* C30: a step that handles a Fired tick while ScreenSamples holds no
\* resources requests resume() if SerialPort::open or OpcPool::open
\* succeeded and create_resources succeeded (the resources are held after
\* the step), and requests throttle() if not, never both; a step that
\* handles a Fired tick while the resources are held leaves the throttled
\* flag as it was.
C30_ResumeOrThrottle ==
    [][HandlesFired =>
        IF is_empty(samples)
        THEN LET opened  == \E e \in Logs(tick', "open") : e[2] = 1 \/ e[3] = 1
                 rebuilt == opened /\ ~is_empty(samples')
             IN  /\ Logs(tick', "resume") # {} <=> rebuilt
                 /\ Logs(tick', "throttle") # {} <=> ~rebuilt
        ELSE timer'.throttled = timer.throttled]_vars

---------------------------------------------------------------------------
(* Properties of the throttle episodes, the channel and the locks.         *)

\* C31: in a Fired tick whose throttle() call found the timer throttled
\* already (a later tick of a throttle episode, no capture resources having
\* been created since the episode began), the Worker writes no serial frame.
C31_ZeroFrameOncePerEpisode ==
    (tick.event = "fired" /\ tick.throttle = "again") => tick.frames = <<>>

\* C32: at any moment at most one event the Timer has sent is waiting in
\* the channel for the Worker to receive it.
C32_AtMostOneUnreceived == Len(channel) <= 1


\* The steps at which the Worker blocks: recv() on the channel ("recv"),
\* the probes and connects of the opens ("fired"), AcquireNextFrame
\* ("take"), and the serial and TCP writes ("send", "stopped").
WorkerBlocks == worker_thread \in {"recv", "fired", "take", "send", "stopped"}

\* C33: a thread that is at a blocking step holds no mutex: the Worker does
\* not hold the WorkerThread mutex when it is about to receive, open,
\* acquire a frame or write.
C33_NoLockAcrossBlocking == WorkerBlocks => worker_lock # "held"

\* C34: an open() that probes gives get_port the numbers COM1, COM2, ... in
\* this order, each once, and when it leaves the probe loop without a match
\* it has tried every number up to the last candidate (COM255 in the
\* source, ProbePorts here).
C34_ProbesAscendingToLast ==
    (call.op = "open" /\ call.probing) =>
        /\ call.attempted = [n \in 1..Len(call.attempted) |-> n]
        /\ Len(call.attempted) <= ProbePorts
        /\ (call.pc = "wait" \/ (call.pc \in {"reopen", "done"} /\ call.found = 0))
              => Len(call.attempted) = ProbePorts

\* C34, reached: an open() has probed every candidate and found no match,
\* although a read was started on the last one.
C34_Witness ==
    /\ call.op = "open" /\ call.probing /\ call.pc = "done" /\ call.found = 0
    /\ call.attempted = [n \in 1..ProbePorts |-> n]
    /\ ProbePorts \in call.probed

---------------------------------------------------------------------------
(* Properties of the indices take_samples and render_channel use.          *)

\* The outcomes of the Maps and acquires that explain a step in which
\* take_samples was called directly and returned Ok.
TakenOk(env) ==
    LET taken == take_samples(samples, parameters, env) IN
    /\ call'.op = "take" /\ call'.n = call.n + 1
    /\ call'.acq = env.acq
    /\ call'.maps_ok = (\A k \in DOMAIN env.map : env.map[k] = "ok")
    /\ taken.result = "ok" /\ call'.result = "ok"
    /\ taken.samples = samples'

\* C35: whenever take_samples returns Ok, every LED whose surface was mapped
\* has the colour computed for it at its own index of previous_colors (the
\* LEDs of the displays before it, plus its position), whichever LEDs before
\* it were skipped; without fading that colour is SampleColor of the image
\* shown.
C35_StoredAtLedIndex ==
    [][\A env \in TakeEnvs(samples, parameters, machine) :
          TakenOk(env) =>
             \A d \in 1..Len(parameters.displays) :
                \A j \in 1..parameters.displays[d].positions :
                   LET k == LedIndex(parameters, d, j) IN
                   env.map[k] = "ok" =>
                      samples'.previous_colors[k] =
                         SampleColor(parameters, Shown, samples.previous_colors[k])]_vars

\* The previous_colors index of each position of the concatenation of the
\* display_index lists: the LEDs of the displays before, plus the entry.
SamplePositions(s, range) ==
    Flatten([d \in 1..Len(range.display_index) |->
               [o \in 1..Len(range.display_index[d]) |->
                   SumSeq(SubSeq(s.pixel_offsets, 1, d - 1))
                   + range.display_index[d][o]]])

\* C36: render_channel runs to its end and samples, for every pixel p of the
\* range, the previous colour of the LED at position
\* p * sample_count / pixel_count of the concatenated display_index lists,
\* and 0 when the lists are empty.
C36_SamplesFollowDisplayIndex ==
    (call.op = "render" /\ samples.acquired_resources) =>
        /\ call.result = "true"
        /\ \A p \in 0..(call.range.pixel_count - 1) :
              LET positions == SamplePositions(samples, call.range)
                  o == (p * call.range.sample_count) \div call.range.pixel_count
              IN  call.sampled[p + 1] =
                     IF positions = <<>> THEN <<0, 0, 0, 0>>
                     ELSE samples.previous_colors[positions[o + 1] + 1]

\* C37: render_channel outputs the sampled word unchanged for every pixel of
\* a range whose kernel_radius is 0 and for every pixel closer than
\* kernel_radius to an end of the range; the other pixels are blurred over
\* a window that lies inside the range.
C37_UnblurredUnchanged ==
    (call.op = "render" /\ call.result = "true") =>
        \A p \in 0..(call.range.pixel_count - 1) :
           LET radius == call.range.kernel_radius IN
           IF radius > 0 /\ radius <= p /\ p <= call.range.pixel_count - radius - 1
           THEN /\ Blurred(call.range, p)
                /\ Len(call.range.kernel_weights) = 2 * radius + 1
                /\ p - radius >= 0
                /\ p + radius <= call.range.pixel_count - 1
           ELSE call.words[p + 1] = call.sampled[p + 1]

\* C38: a Worker is spawned into a clean pipeline: at the spawn the channel
\* is empty and no Timer thread of an earlier run is alive, so that the
\* Worker of a run receives the events of its own run only.
C38_FreshRunStartsClean ==
    [][(worker_thread # "spawned" /\ worker_thread' = "spawned") =>
          (channel = <<>> /\ TimersAlive = {})]_vars

\* C39: UpdateTimer.start() always returns: the window procedure is never
\* inside WorkerThread::start waiting for the WorkerThread mutex while the
\* Worker that holds it waits for a Stopped event that only a later stop()
\* of the same window procedure could cause.
C39_StartReturns ==
    ~(/\ caller.pc = "start_worker"
      /\ worker_lock = "held"
      /\ worker_thread \in {"recv", "fired", "take", "send"}
      /\ ~timer.stopped
      /\ "Stopped" \notin Range(channel))

\* C40: a create_resources that returns an error leaves ScreenSamples with
\* no display resources, so that a retry starts from an empty display list.
C40_ErrorLeavesNoDisplay ==
    (call.op = "create" /\ call.result = "err") => samples.displays = <<>>
=============================================================================
